---- MODULE Spec2Model ----
(***************************************************************************)
(* The HTTP gateway of the fire-department analytics dashboard: the        *)
(* process invokers (runPythonScript, runPython), the route handlers of    *)
(* the main gateway and of the smart / ai routers, the templated           *)
(* ingestion router and the upload session store.                          *)
(*                                                                         *)
(* Text (a process's stdout / stderr, a JS string) is a sequence of        *)
(* lexemes; a lexeme is a record [k, c]: k its kind, c its characters.     *)
(***************************************************************************)
EXTENDS Integers, Sequences, FiniteSets, TLC

(***************************************************************************)
(* Lexemes                                                                 *)
(***************************************************************************)
P(c) == [k |-> "punct", c |-> c]      \* one of { } [ ] , :
S(c) == [k |-> "string", c |-> c]     \* a double-quoted string literal "c"
D(c) == [k |-> "digit", c |-> c]      \* one decimal digit
L(c) == [k |-> "literal", c |-> c]    \* true, false, null
T(c) == [k |-> "text", c |-> c]       \* a run of other characters
W == [k |-> "space", c |-> " "]       \* JSON whitespace

(***************************************************************************)
(* JS values                                                               *)
(***************************************************************************)
Undefined == [t |-> "undefined"]
JNull == [t |-> "null"]
JBool(b) == [t |-> "bool", b |-> b]
JNum(n) == [t |-> "num", n |-> n]
JStr(s) == [t |-> "str", s |-> s]
JArr(items) == [t |-> "arr", items |-> items]
JObj(members) == [t |-> "obj", members |-> members]
Str(c) == JStr(<<T(c)>>)
KV(key, val) == [key |-> key, val |-> val]

(***************************************************************************)
(* JS property access and truthiness on parsed values                     *)
(***************************************************************************)
RECURSIVE Lookup(_, _, _)
Lookup(members, key, i) ==
  IF i = 0 THEN Undefined
  ELSE IF members[i].key = key THEN members[i].val
  ELSE Lookup(members, key, i - 1)

\* v[key] for a v that is neither null nor undefined (those throw TypeError)
GetProp(v, key) ==
  IF v.t = "obj" THEN Lookup(v.members, key, Len(v.members)) ELSE Undefined

Truthy(v) ==
  CASE v.t = "undefined" -> FALSE
    [] v.t = "null" -> FALSE
    [] v.t = "bool" -> v.b
    [] v.t = "num" -> v.n # 0
    [] v.t = "str" -> v.s # <<>>
    [] OTHER -> TRUE

RECURSIVE Flatten(_)
Flatten(chunks) ==
  IF chunks = <<>> THEN <<>> ELSE Head(chunks) \o Flatten(Tail(chunks))

(***************************************************************************)
(* JSON.parse over a text: [ok, v, next]                                   *)
(***************************************************************************)
ParseFail == [ok |-> FALSE, v |-> Undefined, next |-> 0]
ParseOk(v, next) == [ok |-> TRUE, v |-> v, next |-> next]

RECURSIVE SkipWs(_, _)
SkipWs(s, i) ==
  IF i <= Len(s) /\ s[i].k = "space" THEN SkipWs(s, i + 1) ELSE i

DigitChars == <<"0", "1", "2", "3", "4", "5", "6", "7", "8", "9">>
DigitVal(c) == (CHOOSE i \in 1..10 : DigitChars[i] = c) - 1

\* the decimal digits of n >= 0
RECURSIVE Digits(_)
Digits(n) ==
  IF n < 10 THEN <<D(DigitChars[n + 1])>>
  ELSE Digits(n \div 10) \o <<D(DigitChars[(n % 10) + 1])>>

\* the integer part of a number whose first digit is not 0
RECURSIVE ParseDigits(_, _, _)
ParseDigits(s, i, acc) ==
  IF i <= Len(s) /\ s[i].k = "digit"
  THEN ParseDigits(s, i + 1, 10 * acc + DigitVal(s[i].c))
  ELSE ParseOk(JNum(acc), i)

\* an object member with a repeated key replaces the earlier value in place
SetMember(members, key, val) ==
  IF \E i \in 1..Len(members) : members[i].key = key
  THEN [i \in 1..Len(members) |->
          IF members[i].key = key THEN KV(key, val) ELSE members[i]]
  ELSE Append(members, KV(key, val))

RECURSIVE ParseValue(_, _)
RECURSIVE ParseElements(_, _, _)
RECURSIVE ParseMembers(_, _, _)

ParseValue(s, i0) ==
  LET i == SkipWs(s, i0) IN
  IF i > Len(s) THEN ParseFail
  ELSE LET tok == s[i] IN
    CASE tok.k = "literal" ->
           ParseOk(IF tok.c = "null" THEN JNull ELSE JBool(tok.c = "true"), i + 1)
      [] tok.k = "string" -> ParseOk(Str(tok.c), i + 1)
      [] tok.k = "digit" ->
           IF tok.c = "0" THEN ParseOk(JNum(0), i + 1) ELSE ParseDigits(s, i, 0)
      [] tok = P("[") ->
           LET j == SkipWs(s, i + 1) IN
           IF j <= Len(s) /\ s[j] = P("]") THEN ParseOk(JArr(<<>>), j + 1)
           ELSE ParseElements(s, j, <<>>)
      [] tok = P("{") ->
           LET j == SkipWs(s, i + 1) IN
           IF j <= Len(s) /\ s[j] = P("}") THEN ParseOk(JObj(<<>>), j + 1)
           ELSE ParseMembers(s, j, <<>>)
      [] OTHER -> ParseFail

ParseElements(s, i, acc) ==
  LET e == ParseValue(s, i) IN
  IF ~e.ok THEN ParseFail
  ELSE LET j == SkipWs(s, e.next) IN
    IF j > Len(s) THEN ParseFail
    ELSE IF s[j] = P(",") THEN ParseElements(s, j + 1, Append(acc, e.v))
    ELSE IF s[j] = P("]") THEN ParseOk(JArr(Append(acc, e.v)), j + 1)
    ELSE ParseFail

ParseMembers(s, i0, acc) ==
  LET i == SkipWs(s, i0) IN
  IF i > Len(s) \/ s[i].k # "string" THEN ParseFail
  ELSE LET c == SkipWs(s, i + 1) IN
    IF c > Len(s) \/ s[c] # P(":") THEN ParseFail
    ELSE LET e == ParseValue(s, c + 1) IN
      IF ~e.ok THEN ParseFail
      ELSE LET j == SkipWs(s, e.next)
               acc2 == SetMember(acc, s[i].c, e.v) IN
        IF j > Len(s) THEN ParseFail
        ELSE IF s[j] = P(",") THEN ParseMembers(s, j + 1, acc2)
        ELSE IF s[j] = P("}") THEN ParseOk(JObj(acc2), j + 1)
        ELSE ParseFail

\* JSON.parse(text): ok = FALSE stands for the SyntaxError it throws
JSONParse(text) ==
  LET r == ParseValue(text, 1) IN
  IF r.ok /\ SkipWs(text, r.next) > Len(text) THEN [ok |-> TRUE, v |-> r.v]
  ELSE [ok |-> FALSE, v |-> Undefined]

(***************************************************************************)
(* JSON.stringify of a value whose strings hold one text run each          *)
(***************************************************************************)
RECURSIVE Stringify(_)
RECURSIVE StringifyItems(_, _)
RECURSIVE StringifyMembers(_, _)

Stringify(v) ==
  CASE v.t = "null" -> <<L("null")>>
    [] v.t = "bool" -> <<L(IF v.b THEN "true" ELSE "false")>>
    [] v.t = "num" -> Digits(v.n)
    [] v.t = "str" -> <<S(v.s[1].c)>>
    [] v.t = "arr" -> <<P("[")>> \o StringifyItems(v.items, 1) \o <<P("]")>>
    [] v.t = "obj" -> <<P("{")>> \o StringifyMembers(v.members, 1) \o <<P("}")>>

StringifyItems(items, i) ==
  IF i > Len(items) THEN <<>>
  ELSE (IF i > 1 THEN <<P(",")>> ELSE <<>>) \o Stringify(items[i])
       \o StringifyItems(items, i + 1)

StringifyMembers(members, i) ==
  IF i > Len(members) THEN <<>>
  ELSE (IF i > 1 THEN <<P(",")>> ELSE <<>>)
       \o <<S(members[i].key), P(":")>> \o Stringify(members[i].val)
       \o StringifyMembers(members, i + 1)

(***************************************************************************)
(* State                                                                   *)
(***************************************************************************)
VARIABLES
  req,          \* per connection: the request in flight and its handler's locals
  child,        \* per connection: the external process the handler waits on
  closure,      \* per connection: dataString / errorString of the invoker call
  promise,      \* per connection: the invoker's pending result
  res,          \* per connection: the response sent for the current request
  spawned,      \* per connection: processes started for the current request
  fileStorage,  \* per router: original file name -> stored path
  disk,         \* the paths that exist on disk
  crashed,      \* the gateway died of an uncaught exception
  quota,        \* requests the clients have yet to send
  puts,         \* history: per router and name, the puts so far and the latest path
  studio        \* the Smart Data Studio page: its state and its calls in flight

vars == <<req, child, closure, promise, res, spawned, fileStorage, disk, crashed,
          quota, puts, studio>>

Slots == {1, 2}

\* bounds on what one external process writes, and on the requests of a run
MaxOutChunks == 2
MaxErrChunks == 2
MaxRequests == 2
\* the most visualizations an analysis suggests
MaxVisualizations == 11
ExitCodes == {0, 1, 2}

NoFile == [present |-> FALSE, originalname |-> "", path |-> "",
           mimetype |-> <<>>, sheet |-> <<>>, readable |-> TRUE]
IdleReq == [route |-> "none", pc |-> "idle", file |-> NoFile, body |-> Undefined,
            result |-> Undefined, i |-> 0, filepath |-> "", tempConfig |-> ""]
NoChild == [st |-> "none", variant |-> "none", script |-> "", args |-> <<>>,
            out |-> <<>>, err |-> <<>>, code |-> 0]
NoClosure == [dataString |-> <<>>, errorString |-> <<>>]
NoPromise == [st |-> "none", v |-> Undefined, settles |-> 0]
NoRes == [sends |-> 0, status |-> 0, body |-> Undefined]

(***************************************************************************)
(* The process invokers                                                    *)
(***************************************************************************)
Resolved(v) == [st |-> "resolved", v |-> v]
\* reject(new Error(message)): v is the error's message
Rejected(message) == [st |-> "rejected", v |-> JStr(message)]

\* a listener that keeps the newest chunk first
OnData_prepend(acc, chunk) == chunk \o acc

\* python.stdout.on('data') / python.stderr.on('data')
OnData(acc, chunk) == acc \o chunk

\* main gateway, python.on('close')
runPythonScript_onClose(code, dataString, errorString) ==
  IF code # 0
  THEN Rejected(IF errorString # <<>> THEN errorString
                ELSE <<T("Python script exited with code ")>> \o Digits(code))
  ELSE LET r == JSONParse(dataString) IN
       IF r.ok THEN Resolved(r.v) ELSE Resolved(JStr(dataString))

\* a close listener that prefers the output text to the error text
smart_runPython_onClose_stdoutFirst(code, dataString, errorString) ==
  IF code # 0
  THEN Rejected(IF dataString # <<>> THEN dataString
                ELSE IF errorString # <<>> THEN errorString
                ELSE <<T("Python exited with code ")>> \o Digits(code))
  ELSE LET r == JSONParse(dataString) IN
       IF r.ok THEN Resolved(r.v)
       ELSE Rejected(<<T("Invalid JSON response from Python")>>)

\* smart router, python.on('close')
smart_runPython_onClose(code, dataString, errorString) ==
  IF code # 0
  THEN Rejected(IF errorString # <<>> THEN errorString
                ELSE IF dataString # <<>> THEN dataString
                ELSE <<T("Python exited with code ")>> \o Digits(code))
  ELSE LET r == JSONParse(dataString) IN
       IF r.ok THEN Resolved(r.v)
       ELSE Rejected(<<T("Invalid JSON response from Python")>>)

\* a close listener that hands unparseable output on, as runPythonScript does
ai_runPython_onClose_lenient(code, dataString, errorString) ==
  IF code # 0
  THEN Rejected(IF errorString # <<>> THEN errorString
                ELSE IF dataString # <<>> THEN dataString
                ELSE <<T("Exit code ")>> \o Digits(code))
  ELSE LET r == JSONParse(dataString) IN
       IF r.ok THEN Resolved(r.v) ELSE Resolved(JStr(dataString))

\* ai router, python.on('close')
ai_runPython_onClose(code, dataString, errorString) ==
  IF code # 0
  THEN Rejected(IF errorString # <<>> THEN errorString
                ELSE IF dataString # <<>> THEN dataString
                ELSE <<T("Exit code ")>> \o Digits(code))
  ELSE LET r == JSONParse(dataString) IN
       IF r.ok THEN Resolved(r.v)
       ELSE Rejected(<<T("Invalid JSON from Python")>>)

\* ai router, earlier revision, python.on('close')
ai2_runPython_onClose(code, dataString, errorString) ==
  IF code # 0
  THEN Rejected(IF errorString # <<>> THEN errorString
                ELSE <<T("Python exited with code ")>> \o Digits(code))
  ELSE LET r == JSONParse(dataString) IN
       IF r.ok THEN Resolved(r.v) ELSE Rejected(<<T("Invalid JSON")>>)

OnClose(variant, code, dataString, errorString) ==
  CASE variant = "main" -> runPythonScript_onClose(code, dataString, errorString)
    [] variant = "smart" -> smart_runPython_onClose(code, dataString, errorString)
    [] variant = "ai" -> ai_runPython_onClose(code, dataString, errorString)
    [] variant = "ai2" -> ai2_runPython_onClose(code, dataString, errorString)

\* new Promise(...): spawn the process, attach the three listeners; before is the
\* number of processes the request had started
Invoke(s, variant, script, args, before) ==
  /\ child' = [child EXCEPT ![s] = [st |-> "running", variant |-> variant,
                  script |-> script, args |-> args, out |-> <<>>, err |-> <<>>,
                  code |-> 0]]
  /\ closure' = [closure EXCEPT ![s] = NoClosure]
  /\ promise' = [promise EXCEPT ![s] = [st |-> "pending", v |-> Undefined,
                                         settles |-> 0]]
  /\ spawned' = [spawned EXCEPT ![s] = before + 1]

(***************************************************************************)
(* What an external process may write                                      *)
(***************************************************************************)
GenericChunks == {<<W>>, <<T("x")>>, <<P("[")>>, <<P("]")>>}
StderrChunks == {<<T("Traceback")>>, <<T("warning")>>}

ReportPath == "reports/r1.pdf"
KpiDoc == JObj(<<KV("total", JNum(1))>>)
FileDoc == JObj(<<KV("file_path", Str(ReportPath))>>)
AnalysisDoc ==
  JObj(<<KV("success", JBool(TRUE)),
         KV("visualizations", JArr(<<JObj(<<KV("type", Str("bar"))>>),
                                     JObj(<<KV("type", Str("pie"))>>)>>))>>)
FailureDoc == JObj(<<KV("success", JBool(FALSE)), KV("error", Str("bad input"))>>)
VizDoc == JObj(<<KV("success", JBool(TRUE)), KV("data", JArr(<<JNum(1)>>))>>)

\* an analysis that suggests n visualizations, each with its own title
Viz(k) == JObj(<<KV("type", Str("bar")), KV("title", Str("chart " \o ToString(k)))>>)
Analysis(n) ==
  JObj(<<KV("success", JBool(TRUE)), KV("visualizations", JArr([k \in 1..n |-> Viz(k)]))>>)
AnalyzeDocs(script) ==
  IF script = "improved_autonomous_ai.py"
  THEN {Analysis(n) : n \in 0..MaxVisualizations} \cup {FailureDoc}
  ELSE {VizDoc}
PdfDoc == JObj(<<KV("success", JBool(TRUE)), KV("path", Str(ReportPath)),
                 KV("filename", Str("r1.pdf"))>>)

ReportScripts == {"ULTIMATE_AI_REPORT.py", "smart_analytics_report.py"}

\* the documents a script writes when it works as its callers expect
ScriptDocs(script) ==
  CASE script = "api_bridge.py" -> {KpiDoc, FileDoc}
    [] script = "smart_processor.py" -> {VizDoc, FailureDoc}
    [] script = "improved_autonomous_ai.py" -> {AnalysisDoc, FailureDoc}
    [] script = "FIX_CHART_DATA.py" -> {VizDoc, FailureDoc}
    [] script \in ReportScripts -> {PdfDoc, FailureDoc}
    [] OTHER -> {}

\* rich: any lexeme may be written; otherwise whole documents and stray text
StdoutChunks(script, rich) ==
  {Stringify(d) : d \in ScriptDocs(script)}
    \cup (IF rich THEN GenericChunks ELSE {<<T("x")>>})

(***************************************************************************)
(* Responses                                                               *)
(***************************************************************************)
\* res.status(status).json(body); a second send on one response is counted
Send(r, status, body) ==
  IF r.sends = 0 THEN [sends |-> 1, status |-> status, body |-> body]
  ELSE [r EXCEPT !.sends = @ + 1]

Free(s) == ~crashed /\ quota > 0 /\ req[s].pc \in {"idle", "done"}

\* a connection takes its next request: the previous exchange is over
Accept(s, r) ==
  /\ req' = [req EXCEPT ![s] = r]
  /\ quota' = quota - 1

NoInvoke(s) ==
  /\ child' = [child EXCEPT ![s] = NoChild]
  /\ closure' = [closure EXCEPT ![s] = NoClosure]
  /\ promise' = [promise EXCEPT ![s] = NoPromise]
  /\ spawned' = [spawned EXCEPT ![s] = 0]

\* an await that gives up on its promise
Settled_orTimedOut(s) == promise[s].st \in {"pending", "resolved", "rejected"}

Settled(s) == promise[s].st \in {"resolved", "rejected"}

(***************************************************************************)
(* The external process and the invoker's listeners                        *)
(***************************************************************************)
ChildStdout(s, chunk, max) ==
  /\ ~crashed /\ child[s].st = "running"
  /\ Len(child[s].out) < max
  /\ child' = [child EXCEPT ![s].out = Append(@, chunk)]
  /\ closure' = [closure EXCEPT ![s].dataString = OnData(@, chunk)]
  /\ UNCHANGED <<req, promise, res, spawned, fileStorage, puts, studio, disk, crashed, quota>>

ChildStderr(s, chunk, max) ==
  /\ ~crashed /\ child[s].st = "running"
  /\ Len(child[s].err) < max
  /\ child' = [child EXCEPT ![s].err = Append(@, chunk)]
  /\ closure' = [closure EXCEPT ![s].errorString = OnData(@, chunk)]
  /\ UNCHANGED <<req, promise, res, spawned, fileStorage, puts, studio, disk, crashed, quota>>

\* a report script writes its PDF / workbook
ChildWritesReport(s) ==
  /\ ~crashed /\ child[s].st = "running"
  /\ \/ child[s].script \in ReportScripts
     \/ child[s].args[1] \in {<<T("generate_pdf_report")>>, <<T("generate_excel_report")>>}
  /\ ReportPath \notin disk
  /\ disk' = disk \cup {ReportPath}
  /\ UNCHANGED <<req, child, closure, promise, res, spawned, fileStorage, puts, studio, crashed,
                 quota>>

\* 'close': the process has ended and its streams are closed
ChildClose(s, code) ==
  /\ ~crashed /\ child[s].st = "running"
  /\ code \in ExitCodes
  /\ child' = [child EXCEPT ![s].st = "closed", ![s].code = code]
  /\ promise' = [promise EXCEPT ![s] =
       [st |-> OnClose(child[s].variant, code, closure[s].dataString,
                       closure[s].errorString).st,
        v |-> OnClose(child[s].variant, code, closure[s].dataString,
                      closure[s].errorString).v,
        settles |-> @.settles + 1]]
  /\ UNCHANGED <<req, closure, res, spawned, fileStorage, puts, studio, disk, crashed, quota>>

\* 'error': the process could not be started. No invoker attaches an 'error'
\* listener, so the emit throws and the uncaught exception ends the gateway.
ChildError(s) ==
  /\ ~crashed /\ child[s].st = "running"
  /\ child[s].out = <<>> /\ child[s].err = <<>>
  /\ child' = [child EXCEPT ![s].st = "failed"]
  /\ crashed' = TRUE
  /\ UNCHANGED <<req, closure, promise, res, spawned, fileStorage, puts, studio, disk, quota>>

(***************************************************************************)
(* Main gateway: health check, KPI / analytics fetches, incident search    *)
(***************************************************************************)
HealthPayload ==
  JObj(<<KV("status", Str("OK")),
         KV("message", Str("Fire Department Analytics API is running"))>>)

\* a health check that reports on the uploads directory
Health_probing(s) ==
  /\ Free(s)
  /\ Accept(s, [IdleReq EXCEPT !.route = "/api/health", !.pc = "done"])
  /\ res' = [res EXCEPT ![s] = Send(NoRes, IF disk = {} THEN 200 ELSE 503, HealthPayload)]
  /\ NoInvoke(s)
  /\ UNCHANGED <<fileStorage, puts, studio, disk, crashed>>

\* app.get('/api/health')
Health(s) ==
  /\ Free(s)
  /\ Accept(s, [IdleReq EXCEPT !.route = "/api/health", !.pc = "done"])
  /\ res' = [res EXCEPT ![s] = Send(NoRes, 200, HealthPayload)]
  /\ NoInvoke(s)
  /\ UNCHANGED <<fileStorage, puts, studio, disk, crashed>>

\* the operation tag each GET handler passes to api_bridge.py
KpiOps ==
  [r \in {"/api/dashboard/kpis", "/api/analytics/incidents-by-type",
          "/api/analytics/incidents-by-severity", "/api/analytics/by-state",
          "/api/analytics/monthly-trends", "/api/analytics/response-time",
          "/api/vendors/performance", "/api/analytics/geographic",
          "/api/analytics/top-causes"} |->
     CASE r = "/api/dashboard/kpis" -> "get_kpis"
       [] r = "/api/analytics/incidents-by-type" -> "get_incidents_by_type"
       [] r = "/api/analytics/incidents-by-severity" -> "get_incidents_by_severity"
       [] r = "/api/analytics/by-state" -> "get_state_analysis"
       [] r = "/api/analytics/monthly-trends" -> "get_monthly_trends"
       [] r = "/api/analytics/response-time" -> "get_response_time"
       [] r = "/api/vendors/performance" -> "get_vendor_performance"
       [] r = "/api/analytics/geographic" -> "get_geographic_data"
       [] r = "/api/analytics/top-causes" -> "get_top_causes"]
KpiRoutes == DOMAIN KpiOps
SearchRoute == "/api/incidents/search"

SearchFilters == {JObj(<<>>), JObj(<<KV("state", Str("Goa"))>>)}

\* a handler that answers 200 whatever the invoker did
main_respond_always200(r, p) ==
  IF p.st = "resolved" THEN Send(r, 200, p.v)
  ELSE Send(r, 200, JObj(<<KV("error", p.v)>>))

\* try { res.json(data) } catch (error) { res.status(500).json({error}) }
main_respond(r, p) ==
  IF p.st = "resolved" THEN Send(r, 200, p.v)
  ELSE Send(r, 500, JObj(<<KV("error", p.v)>>))

\* app.get(route), up to the await
KpiRequest(s, route) ==
  /\ Free(s)
  /\ route \in KpiRoutes
  /\ Accept(s, [IdleReq EXCEPT !.route = route, !.pc = "await"])
  /\ res' = [res EXCEPT ![s] = NoRes]
  /\ Invoke(s, "main", "api_bridge.py", <<<<T(KpiOps[route])>>>>, 0)
  /\ UNCHANGED <<fileStorage, puts, studio, disk, crashed>>

\* app.post('/api/incidents/search'), up to the await
SearchRequest(s, filters) ==
  /\ Free(s)
  /\ filters \in SearchFilters
  /\ Accept(s, [IdleReq EXCEPT !.route = SearchRoute, !.pc = "await",
                               !.body = filters])
  /\ res' = [res EXCEPT ![s] = NoRes]
  /\ Invoke(s, "main", "api_bridge.py",
            <<<<T("search_incidents")>>, Stringify(filters)>>, 0)
  /\ UNCHANGED <<fileStorage, puts, studio, disk, crashed>>

\* the GET handlers and the search handler, after the await
MainResume(s) ==
  /\ ~crashed /\ req[s].pc = "await"
  /\ req[s].route \in KpiRoutes \cup {SearchRoute}
  /\ Settled(s)
  /\ res' = [res EXCEPT ![s] = main_respond(@, promise[s])]
  /\ req' = [req EXCEPT ![s].pc = "done"]
  /\ UNCHANGED <<child, closure, promise, spawned, fileStorage, puts, studio, disk, crashed, quota>>

(***************************************************************************)
(* Main gateway: report generation                                         *)
(***************************************************************************)
ReportOps ==
  [r \in {"/api/reports/generate-pdf", "/api/reports/generate-excel"} |->
     IF r = "/api/reports/generate-pdf" THEN "generate_pdf_report"
     ELSE "generate_excel_report"]
ReportRoutes == DOMAIN ReportOps

\* messages of the TypeErrors the handlers' own statements throw
NullPropertyError == Str("Cannot read properties of null")
PathArgumentError == Str("The path argument must be of type string")

\* path.basename on the paths of the model
Basename(path) == IF path = ReportPath THEN "r1.pdf" ELSE path
FileBody(path, name) == [t |-> "file", path |-> path, name |-> name]

\* app.post('/api/reports/generate-*'), up to the await
ReportRequest(s, route) ==
  /\ Free(s)
  /\ route \in ReportRoutes
  /\ Accept(s, [IdleReq EXCEPT !.route = route, !.pc = "await"])
  /\ res' = [res EXCEPT ![s] = NoRes]
  /\ Invoke(s, "main", "api_bridge.py", <<<<T(ReportOps[route])>>>>, 0)
  /\ UNCHANGED <<fileStorage, puts, studio, disk, crashed>>

\* after the await: result.file_path, path.basename, res.download
ReportResume(s) ==
  /\ ~crashed /\ req[s].pc = "await"
  /\ req[s].route \in ReportRoutes
  /\ Settled(s)
  /\ LET p == promise[s]
         filePath == GetProp(p.v, "file_path") IN
     IF p.st = "rejected"
     THEN /\ res' = [res EXCEPT ![s] = Send(@, 500, JObj(<<KV("error", p.v)>>))]
          /\ req' = [req EXCEPT ![s].pc = "done"]
     ELSE IF p.v.t = "null"
     THEN /\ res' = [res EXCEPT ![s] =
                       Send(@, 500, JObj(<<KV("error", NullPropertyError)>>))]
          /\ req' = [req EXCEPT ![s].pc = "done"]
     ELSE IF filePath.t # "str"
     THEN /\ res' = [res EXCEPT ![s] =
                       Send(@, 500, JObj(<<KV("error", PathArgumentError)>>))]
          /\ req' = [req EXCEPT ![s].pc = "done"]
     ELSE /\ req' = [req EXCEPT ![s].pc = "download",
                                ![s].filepath = filePath.s[1].c,
                                ![s].result = p.v]
          /\ UNCHANGED res
  /\ UNCHANGED <<child, closure, promise, spawned, fileStorage, puts, studio, disk, crashed, quota>>

\* res.download(filePath, fileName, (err) => { if (err) res.status(500).json(..) })
\* A file that is missing fails before anything is sent. A transfer that is aborted
\* (the client goes away, the file cannot be read on) fails after the headers are
\* out: the callback's res.status(500).json(..) is then a second send, which throws
\* out of the callback and ends the gateway.
ReportDownload(s, aborted) ==
  /\ ~crashed /\ req[s].pc = "download"
  /\ req[s].route \in ReportRoutes
  /\ aborted \in BOOLEAN
  /\ LET sent == Send(res[s], 200, FileBody(req[s].filepath, Str(Basename(req[s].filepath))))
         failure == JObj(<<KV("error", Str("Error downloading file"))>>) IN
     /\ res' = [res EXCEPT ![s] =
          IF req[s].filepath \notin disk THEN Send(@, 500, failure)
          ELSE IF aborted THEN Send(sent, 500, failure)
          ELSE sent]
     /\ crashed' = (req[s].filepath \in disk /\ aborted)
  /\ req' = [req EXCEPT ![s].pc = "done"]
  /\ UNCHANGED <<child, closure, promise, spawned, fileStorage, puts, studio, disk, quota>>

(***************************************************************************)
(* Uploads and the upload session store                                    *)
(***************************************************************************)
\* original names of uploaded files; "__proto__" is the one name a plain object
\* does not keep as a property of its own
FileNames == {"data.csv", "__proto__"}
Routers == {"smart", "ai", "ai2"}
NoPath == ""
Clock == {1}

\* path.join(__dirname, '../../uploads', name)
UploadPath(name) == "uploads/" \o name
TempPath(prefix, t, suffix) == "uploads/" \o prefix \o ToString(t) \o suffix

AnalyzeRoute(router) == "/api/" \o router \o "/analyze"
PrepareVizRoute(router) == "/api/" \o router \o "/prepare-viz"
GenerateReportRoute(router) == "/api/" \o router \o "/generate-report"

\* a storage that puts a serial number before the original name
StoredFile_numbered(name) == [NoFile EXCEPT !.present = TRUE, !.originalname = name,
                                            !.path = "uploads/1-" \o name]

\* multer.diskStorage: destination uploads, filename file.originalname
StoredFile(name) == [NoFile EXCEPT !.present = TRUE, !.originalname = name,
                                   !.path = UploadPath(name)]
AnalyzeFiles == {NoFile} \cup {StoredFile(n) : n \in FileNames}

\* upload.single('file') of the analyze routes: the file is on disk, under its
\* original name, when the handler is called
AnalyzeUpload(s, router, file) ==
  /\ Free(s)
  /\ router \in Routers /\ file \in AnalyzeFiles
  /\ Accept(s, [IdleReq EXCEPT !.route = AnalyzeRoute(router), !.pc = "stored",
                               !.file = file])
  /\ res' = [res EXCEPT ![s] = NoRes]
  /\ NoInvoke(s)
  /\ disk' = IF file.present THEN disk \cup {file.path} ELSE disk
  /\ UNCHANGED <<fileStorage, puts, studio, crashed>>

\* what fileStorage["__proto__"] evaluates to: the prototype object, no path
ObjectPrototype == "[object Object]"

\* fileStorage[filename] of a plain object: its own properties, and for "__proto__"
\* the accessor it inherits
Get(store, filename) ==
  IF filename = "__proto__" THEN ObjectPrototype
  ELSE IF filename \in DOMAIN store THEN store[filename] ELSE NoPath

\* a resolution that consults the store alone
resolvePath_storeOnly(store, filename) == Get(store, filename)

\* let filepath = fileStorage[filename];
\* if (!filepath || !fs.existsSync(filepath)) filepath = path.join(uploads, filename)
resolvePath(store, filename) ==
  IF Get(store, filename) # NoPath /\ Get(store, filename) \in disk
  THEN Get(store, filename) ELSE UploadPath(filename)

VizConfig == JObj(<<KV("type", Str("bar")), KV("title", Str("By state"))>>)
Body(filename, viz_config) ==
  JObj((IF filename = Undefined THEN <<>> ELSE <<KV("filename", filename)>>)
       \o (IF viz_config = Undefined THEN <<>> ELSE <<KV("viz_config", viz_config)>>))
PrepareVizBodies ==
  {Body(f, v) : f \in {Undefined} \cup {Str(n) : n \in FileNames},
                v \in {Undefined, VizConfig}}
GenerateReportBodies ==
  {Body(f, Undefined) : f \in {Undefined} \cup {Str(n) : n \in FileNames}}

Fail(r, status, message) ==
  Send(r, status, JObj(<<KV("success", JBool(FALSE)), KV("error", message)>>))

Arg(c) == <<T(c)>>
DataArgumentError == Str("The data argument must be of type string")
Done(s) == req' = [req EXCEPT ![s].pc = "done"]
Respond(s, r) == res' = [res EXCEPT ![s] = r]
\* fileStorage[req.file.originalname] = req.file.path; assigning a string to
\* "__proto__" goes to the inherited setter, which ignores it
Put(router, file) ==
  fileStorage' = IF file.originalname = "__proto__" THEN fileStorage
                 ELSE [fileStorage EXCEPT ![router][file.originalname] = file.path]

\* the put enters the history
Recorded(router, file) ==
  puts' = [puts EXCEPT ![router][file.originalname] =
             [count |-> @.count + 1, path |-> file.path]]

\* res.status(500).json({ success: false, error: result.error })
FailWith(r, status, error) ==
  IF error = Undefined THEN Send(r, status, JObj(<<KV("success", JBool(FALSE))>>))
  ELSE Fail(r, status, error)

(***************************************************************************)
(* Smart router                                                            *)
(***************************************************************************)
\* router.post('/analyze'), up to the await
SmartAnalyze(s) ==
  /\ ~crashed /\ req[s].pc = "stored" /\ req[s].route = AnalyzeRoute("smart")
  /\ IF ~req[s].file.present
     THEN /\ Respond(s, Fail(res[s], 400, Str("No file uploaded")))
          /\ Done(s)
          /\ UNCHANGED <<child, closure, promise, spawned, fileStorage, puts, studio>>
     ELSE /\ Put("smart", req[s].file)
          /\ Recorded("smart", req[s].file)
          /\ UNCHANGED studio
          /\ Invoke(s, "smart", "smart_processor.py",
                    <<Arg("analyze"), Arg(req[s].file.path)>>, 0)
          /\ req' = [req EXCEPT ![s].pc = "await"]
          /\ UNCHANGED res
  /\ UNCHANGED <<disk, crashed, quota>>

\* router.post('/analyze'), after the await
SmartAnalyzeResume(s) ==
  /\ ~crashed /\ req[s].pc = "await" /\ req[s].route = AnalyzeRoute("smart")
  /\ Settled(s)
  /\ Respond(s, IF promise[s].st = "resolved" THEN Send(res[s], 200, promise[s].v)
                ELSE Fail(res[s], 500, promise[s].v))
  /\ Done(s)
  /\ UNCHANGED <<child, closure, promise, spawned, fileStorage, puts, studio, disk, crashed, quota>>

\* router.post('/prepare-viz'), up to the await
SmartPrepareViz(s, body, t) ==
  /\ Free(s)
  /\ body \in PrepareVizBodies /\ t \in Clock
  /\ quota' = quota - 1
  /\ LET filename == GetProp(body, "filename")
         viz_config == GetProp(body, "viz_config")
         filepath == resolvePath(fileStorage["smart"], filename.s[1].c)
         tempConfigFile == TempPath("viz_config_", t, ".json")
         r == [IdleReq EXCEPT !.route = PrepareVizRoute("smart"), !.body = body] IN
     IF ~Truthy(filename) \/ ~Truthy(viz_config)
     THEN /\ Respond(s, Fail(NoRes, 400, Str("Missing parameters")))
          /\ req' = [req EXCEPT ![s] = [r EXCEPT !.pc = "done"]]
          /\ NoInvoke(s)
          /\ UNCHANGED disk
     ELSE IF filepath \notin disk
     THEN /\ Respond(s, Fail(NoRes, 404, Str("File not found")))
          /\ req' = [req EXCEPT ![s] = [r EXCEPT !.pc = "done"]]
          /\ NoInvoke(s)
          /\ UNCHANGED disk
     ELSE /\ disk' = disk \cup {tempConfigFile}
          /\ Invoke(s, "smart", "smart_processor.py",
                    <<Arg("prepare_viz"), Arg(filepath), Arg(tempConfigFile)>>, 0)
          /\ req' = [req EXCEPT ![s] = [r EXCEPT !.pc = "await",
                        !.filepath = filepath, !.tempConfig = tempConfigFile]]
          /\ Respond(s, NoRes)
  /\ UNCHANGED <<fileStorage, puts, studio, crashed>>

\* router.post('/prepare-viz'), after the await
SmartPrepareVizResume(s) ==
  /\ ~crashed /\ req[s].pc = "await" /\ req[s].route = PrepareVizRoute("smart")
  /\ Settled(s)
  /\ IF promise[s].st = "resolved"
     THEN /\ disk' = disk \ {req[s].tempConfig}
          /\ Respond(s, Send(res[s], 200, promise[s].v))
     ELSE /\ Respond(s, Fail(res[s], 500, promise[s].v))
          /\ UNCHANGED disk
  /\ Done(s)
  /\ UNCHANGED <<child, closure, promise, spawned, fileStorage, puts, studio, crashed, quota>>

\* router.post('/generate-report'), up to the await
SmartGenerateReport(s, body) ==
  /\ Free(s)
  /\ body \in GenerateReportBodies
  /\ quota' = quota - 1
  /\ LET filename == GetProp(body, "filename")
         filepath == resolvePath(fileStorage["smart"], filename.s[1].c)
         r == [IdleReq EXCEPT !.route = GenerateReportRoute("smart"), !.body = body] IN
     IF filename = Undefined
     THEN /\ Respond(s, Fail(NoRes, 500, PathArgumentError))
          /\ req' = [req EXCEPT ![s] = [r EXCEPT !.pc = "done"]]
          /\ NoInvoke(s)
     ELSE IF filepath \notin disk
     THEN /\ Respond(s, Fail(NoRes, 404, Str("File not found. Please upload again.")))
          /\ req' = [req EXCEPT ![s] = [r EXCEPT !.pc = "done"]]
          /\ NoInvoke(s)
     ELSE /\ Invoke(s, "smart", "smart_analytics_report.py", <<Arg(filepath)>>, 0)
          /\ req' = [req EXCEPT ![s] = [r EXCEPT !.pc = "await", !.filepath = filepath]]
          /\ Respond(s, NoRes)
  /\ UNCHANGED <<fileStorage, puts, studio, disk, crashed>>

\* a generate-report that answers a missing PDF like any other failure
report_resume_plain500(s, notFound) ==
  LET p == promise[s]
      pdfPath == GetProp(p.v, "path") IN
  IF p.st = "rejected"
  THEN Respond(s, Fail(res[s], 500, p.v)) /\ Done(s)
  ELSE IF p.v.t = "null"
  THEN Respond(s, Fail(res[s], 500, NullPropertyError)) /\ Done(s)
  ELSE IF ~Truthy(GetProp(p.v, "success"))
  THEN Respond(s, FailWith(res[s], 500, GetProp(p.v, "error"))) /\ Done(s)
  ELSE IF pdfPath.t = "str" /\ pdfPath.s[1].c \in disk
  THEN /\ req' = [req EXCEPT ![s].pc = "download", ![s].result = p.v,
                             ![s].filepath = pdfPath.s[1].c]
       /\ UNCHANGED res
  ELSE Respond(s, Fail(res[s], 500, notFound)) /\ Done(s)

\* generate-report after the await, the same statements in the three routers:
\* if (result.success) { if (fs.existsSync(result.path)) res.download(..) else 404 }
\* else 500
report_resume(s, notFound) ==
  LET p == promise[s]
      pdfPath == GetProp(p.v, "path") IN
  IF p.st = "rejected"
  THEN Respond(s, Fail(res[s], 500, p.v)) /\ Done(s)
  ELSE IF p.v.t = "null"
  THEN Respond(s, Fail(res[s], 500, NullPropertyError)) /\ Done(s)
  ELSE IF ~Truthy(GetProp(p.v, "success"))
  THEN Respond(s, FailWith(res[s], 500, GetProp(p.v, "error"))) /\ Done(s)
  ELSE IF pdfPath.t = "str" /\ pdfPath.s[1].c \in disk
  THEN /\ req' = [req EXCEPT ![s].pc = "download", ![s].result = p.v,
                             ![s].filepath = pdfPath.s[1].c]
       /\ UNCHANGED res
  ELSE Respond(s, Fail(res[s], 404, notFound)) /\ Done(s)

SmartGenerateReportResume(s) ==
  /\ ~crashed /\ req[s].pc = "await" /\ req[s].route = GenerateReportRoute("smart")
  /\ Settled(s)
  /\ report_resume(s, Str("PDF file not found"))
  /\ UNCHANGED <<child, closure, promise, spawned, fileStorage, puts, studio, disk, crashed, quota>>

\* res.download(pdfPath, result.filename, ...) of the three routers. The smart
\* router's callback only logs an error; the ai routers pass none, and Express
\* answers a missing file with its own 404.
RouterDownload(s) ==
  /\ ~crashed /\ req[s].pc = "download"
  /\ req[s].route \in {GenerateReportRoute(r) : r \in Routers}
  /\ Respond(s,
       IF req[s].filepath \in disk
       THEN Send(res[s], 200, FileBody(req[s].filepath, GetProp(req[s].result, "filename")))
       ELSE IF req[s].route = GenerateReportRoute("smart") THEN res[s]
       ELSE Send(res[s], 404, Str("Not Found")))
  /\ Done(s)
  /\ UNCHANGED <<child, closure, promise, spawned, fileStorage, puts, studio, disk, crashed, quota>>

(***************************************************************************)
(* Ai router, and its earlier revision (ai2)                               *)
(***************************************************************************)
\* router.post('/analyze'), up to the await, in both revisions
ai_analyze(s, router) ==
  /\ ~crashed /\ req[s].pc = "stored" /\ req[s].route = AnalyzeRoute(router)
  /\ IF ~req[s].file.present
     THEN /\ Respond(s, Fail(res[s], 400, Str("No file uploaded")))
          /\ Done(s)
          /\ UNCHANGED <<child, closure, promise, spawned, fileStorage, puts, studio>>
     ELSE /\ Put(router, req[s].file)
          /\ Recorded(router, req[s].file)
          /\ UNCHANGED studio
          /\ Invoke(s, router, "improved_autonomous_ai.py",
                    <<Arg(req[s].file.path), Arg("analyze")>>, 0)
          /\ req' = [req EXCEPT ![s].pc = "await"]
          /\ UNCHANGED res
  /\ UNCHANGED <<disk, crashed, quota>>

AiAnalyze(s) == ai_analyze(s, "ai")
Ai2Analyze(s) == ai_analyze(s, "ai2")

\* earlier revision, after the await: result.visualizations?.length, res.json(result)
Ai2AnalyzeResume(s) ==
  /\ ~crashed /\ req[s].pc = "await" /\ req[s].route = AnalyzeRoute("ai2")
  /\ Settled(s)
  /\ Respond(s, IF promise[s].st = "rejected" THEN Fail(res[s], 500, promise[s].v)
                ELSE IF promise[s].v.t = "null"
                THEN Fail(res[s], 500, NullPropertyError)
                ELSE Send(res[s], 200, promise[s].v))
  /\ Done(s)
  /\ UNCHANGED <<child, closure, promise, spawned, fileStorage, puts, studio, disk, crashed, quota>>

MaxPrepared == 10
Min(a, b) == IF a < b THEN a ELSE b

\* a loop that prepares every visualization
Prepared_all(result) ==
  LET v == GetProp(result, "visualizations") IN
  IF v.t = "arr" THEN Len(v.items) ELSE 0

\* the number of visualizations the loop of analyze prepares
Prepared(result) ==
  LET v == GetProp(result, "visualizations") IN
  IF v.t = "arr" THEN Min(Len(v.items), MaxPrepared) ELSE 0

\* result.visualizations[i].data = data
SetData(result, i, data) ==
  LET items == GetProp(result, "visualizations").items IN
  IF items[i + 1].t # "obj" THEN result
  ELSE JObj(SetMember(result.members, "visualizations",
         JArr([items EXCEPT ![i + 1] = JObj(SetMember(@.members, "data", data))])))

\* one turn of the loop up to its await: write the config file, start the process.
\* d is the disk and n the number of processes started when the turn begins.
StartPrep(s, result, i, t, d, n) ==
  LET tempConfig == TempPath("config_", t, "_" \o ToString(i) \o ".json") IN
  /\ disk' = d \cup {tempConfig}
  /\ Invoke(s, "ai", "FIX_CHART_DATA.py",
            <<Arg(req[s].file.path), Arg("prepare_viz"), Arg(tempConfig)>>, n)
  /\ req' = [req EXCEPT ![s].pc = "await-prep", ![s].result = result, ![s].i = i,
                        ![s].tempConfig = tempConfig]
  /\ UNCHANGED res

\* router.post('/analyze'), from the first await to the loop's first await
AiAnalyzeResume(s, t) ==
  /\ ~crashed /\ req[s].pc = "await" /\ req[s].route = AnalyzeRoute("ai")
  /\ Settled(s)
  /\ t \in Clock
  /\ LET p == promise[s] IN
     IF p.st = "rejected" \/ p.v.t = "null" \/ ~Truthy(GetProp(p.v, "success"))
        \/ Prepared(p.v) = 0
     THEN /\ Respond(s, IF p.st = "rejected" THEN Fail(res[s], 500, p.v)
                        ELSE IF p.v.t = "null" THEN Fail(res[s], 500, NullPropertyError)
                        ELSE IF ~Truthy(GetProp(p.v, "success")) THEN Send(res[s], 500, p.v)
                        ELSE Send(res[s], 200, p.v))
          /\ Done(s)
          /\ UNCHANGED <<child, closure, promise, spawned, disk>>
     ELSE StartPrep(s, p.v, 0, t, disk, spawned[s])
  /\ UNCHANGED <<fileStorage, puts, studio, crashed, quota>>

\* a turn that merges whatever a resolved preparation holds
prep_outcome_merging(result, i, p) ==
  IF p.st = "rejected" \/ p.v.t = "null" THEN [result |-> result, unlinked |-> FALSE]
  ELSE [result |-> SetData(result, i, GetProp(p.v, "data")), unlinked |-> TRUE]

\* what one turn's try block leaves after its await: the result, and whether the
\* unlink was reached (a rejection or a TypeError jumps to the catch before it)
prep_outcome(result, i, p) ==
  LET item == GetProp(result, "visualizations").items[i + 1] IN
  IF p.st = "rejected" \/ p.v.t = "null"
  THEN [result |-> result, unlinked |-> FALSE]
  ELSE IF Truthy(GetProp(p.v, "success")) /\ Truthy(GetProp(p.v, "data"))
  THEN IF item.t = "null" THEN [result |-> result, unlinked |-> FALSE]
       ELSE [result |-> SetData(result, i, GetProp(p.v, "data")), unlinked |-> TRUE]
  ELSE [result |-> result, unlinked |-> TRUE]

\* a loop that tries a rejected preparation again
AiPrepResume_retrying(s, t) ==
  /\ ~crashed /\ req[s].pc = "await-prep" /\ req[s].route = AnalyzeRoute("ai")
  /\ Settled(s)
  /\ t \in Clock
  /\ LET o == prep_outcome(req[s].result, req[s].i, promise[s])
         d == IF o.unlinked THEN disk \ {req[s].tempConfig} ELSE disk IN
     IF promise[s].st = "rejected"
     THEN StartPrep(s, o.result, req[s].i, t, d, spawned[s])
     ELSE IF req[s].i + 1 < Prepared(o.result)
     THEN StartPrep(s, o.result, req[s].i + 1, t, d, spawned[s])
     ELSE /\ Respond(s, Send(res[s], 200, o.result))
          /\ req' = [req EXCEPT ![s].pc = "done", ![s].result = o.result]
          /\ disk' = d
          /\ UNCHANGED <<child, closure, promise, spawned>>
  /\ UNCHANGED <<fileStorage, puts, studio, crashed, quota>>

\* router.post('/analyze'), from one turn's await to the next await or the response
AiPrepResume(s, t) ==
  /\ ~crashed /\ req[s].pc = "await-prep" /\ req[s].route = AnalyzeRoute("ai")
  /\ Settled(s)
  /\ t \in Clock
  /\ LET o == prep_outcome(req[s].result, req[s].i, promise[s])
         d == IF o.unlinked THEN disk \ {req[s].tempConfig} ELSE disk IN
     IF req[s].i + 1 < Prepared(o.result)
     THEN StartPrep(s, o.result, req[s].i + 1, t, d, spawned[s])
     ELSE /\ Respond(s, Send(res[s], 200, o.result))
          /\ req' = [req EXCEPT ![s].pc = "done", ![s].result = o.result]
          /\ disk' = d
          /\ UNCHANGED <<child, closure, promise, spawned>>
  /\ UNCHANGED <<fileStorage, puts, studio, crashed, quota>>

\* router.post('/prepare-viz'), up to the await, in both revisions
ai_prepare_viz(s, router, prefix, body, t) ==
  /\ Free(s)
  /\ body \in PrepareVizBodies /\ t \in Clock
  /\ quota' = quota - 1
  /\ LET filename == GetProp(body, "filename")
         viz_config == GetProp(body, "viz_config")
         filepath == resolvePath(fileStorage[router], filename.s[1].c)
         tempConfig == TempPath(prefix, t, ".json")
         r == [IdleReq EXCEPT !.route = PrepareVizRoute(router), !.body = body] IN
     IF filename = Undefined \/ filepath \notin disk \/ viz_config = Undefined
     THEN /\ Respond(s, IF filename = Undefined THEN Fail(NoRes, 500, PathArgumentError)
                        ELSE IF filepath \notin disk
                        THEN Fail(NoRes, 404, Str("File not found"))
                        ELSE Fail(NoRes, 500, DataArgumentError))
          /\ req' = [req EXCEPT ![s] = [r EXCEPT !.pc = "done"]]
          /\ NoInvoke(s)
          /\ UNCHANGED disk
     ELSE /\ disk' = disk \cup {tempConfig}
          /\ Invoke(s, router, "FIX_CHART_DATA.py",
                    <<Arg(filepath), Arg("prepare_viz"), Arg(tempConfig)>>, 0)
          /\ req' = [req EXCEPT ![s] = [r EXCEPT !.pc = "await",
                        !.filepath = filepath, !.tempConfig = tempConfig]]
          /\ Respond(s, NoRes)
  /\ UNCHANGED <<fileStorage, puts, studio, crashed>>

AiPrepareViz(s, body, t) == ai_prepare_viz(s, "ai", "config_manual_", body, t)
Ai2PrepareViz(s, body, t) == ai_prepare_viz(s, "ai2", "config_", body, t)

\* router.post('/prepare-viz'), after the await, in both revisions:
\* unlink, then result.data?.length, then res.json(result)
ai_prepare_viz_resume(s, router) ==
  /\ ~crashed /\ req[s].pc = "await" /\ req[s].route = PrepareVizRoute(router)
  /\ Settled(s)
  /\ IF promise[s].st = "resolved"
     THEN /\ disk' = disk \ {req[s].tempConfig}
          /\ Respond(s, IF promise[s].v.t = "null"
                        THEN Fail(res[s], 500, NullPropertyError)
                        ELSE Send(res[s], 200, promise[s].v))
     ELSE /\ Respond(s, Fail(res[s], 500, promise[s].v))
          /\ UNCHANGED disk
  /\ Done(s)
  /\ UNCHANGED <<child, closure, promise, spawned, fileStorage, puts, studio, crashed, quota>>

AiPrepareVizResume(s) == ai_prepare_viz_resume(s, "ai")
Ai2PrepareVizResume(s) == ai_prepare_viz_resume(s, "ai2")

\* router.post('/generate-report'), up to the await, in both revisions
ai_generate_report(s, router, body) ==
  /\ Free(s)
  /\ body \in GenerateReportBodies
  /\ quota' = quota - 1
  /\ LET filename == GetProp(body, "filename")
         filepath == resolvePath(fileStorage[router], filename.s[1].c)
         r == [IdleReq EXCEPT !.route = GenerateReportRoute(router), !.body = body] IN
     IF filename = Undefined
     THEN /\ Respond(s, Fail(NoRes, 500, PathArgumentError))
          /\ req' = [req EXCEPT ![s] = [r EXCEPT !.pc = "done"]]
          /\ NoInvoke(s)
     ELSE IF filepath \notin disk
     THEN /\ Respond(s, Fail(NoRes, 404, Str("File not found")))
          /\ req' = [req EXCEPT ![s] = [r EXCEPT !.pc = "done"]]
          /\ NoInvoke(s)
     ELSE /\ Invoke(s, router, "ULTIMATE_AI_REPORT.py", <<Arg(filepath)>>, 0)
          /\ req' = [req EXCEPT ![s] = [r EXCEPT !.pc = "await", !.filepath = filepath]]
          /\ Respond(s, NoRes)
  /\ UNCHANGED <<fileStorage, puts, studio, disk, crashed>>

AiGenerateReport(s, body) == ai_generate_report(s, "ai", body)
Ai2GenerateReport(s, body) == ai_generate_report(s, "ai2", body)

AiGenerateReportResume(s) ==
  /\ ~crashed /\ req[s].pc = "await" /\ req[s].route = GenerateReportRoute("ai")
  /\ Settled(s)
  /\ report_resume(s, Str("PDF not found"))
  /\ UNCHANGED <<child, closure, promise, spawned, fileStorage, puts, studio, disk, crashed, quota>>

Ai2GenerateReportResume(s) ==
  /\ ~crashed /\ req[s].pc = "await" /\ req[s].route = GenerateReportRoute("ai2")
  /\ Settled(s)
  /\ report_resume(s, Str("PDF not found"))
  /\ UNCHANGED <<child, closure, promise, spawned, fileStorage, puts, studio, disk, crashed, quota>>

(***************************************************************************)
(* Data uploads: /api/data/upload of the main gateway and /ingest           *)
(***************************************************************************)
MaxRows == 7
SampleSize == 5
PreviewSize == 5
MaxErrors == 50
FirstRowNum == 2

UploadRoute == "/api/data/upload"
IngestRoute == "/ingest"

\* multer({ dest }): the file is stored under a random name in dest
TempNames == {"3f9a", "c07e"}
Dest(route) == IF route = UploadRoute THEN "../data/uploads/" ELSE "uploads/"

\* req.file.mimetype, cut where the words the handler looks for begin and end
CsvType == <<"text/", "csv">>
XlsType == <<"application/vnd.ms-", "excel">>
XlsxType == <<"application/vnd.openxmlformats-officedocument.", "spreadsheet", "ml.sheet">>
JsonType == <<"application/json">>
MimeTypes == {CsvType, XlsType, XlsxType, JsonType}

\* String.prototype.includes
Includes(text, word) == \E i \in 1..Len(text) : text[i] = word

\* rows as XLSX.utils.sheet_to_json yields them: one object per row, a member per
\* non-empty cell, numbers for numeric cells
ValidRow ==
  JObj(<<KV("incident_number", Str("INC-1")), KV("timestamp", Str("2024-01-01")),
         KV("state", Str("Kerala")), KV("district", Str("Kollam")),
         KV("city", Str("Kollam")), KV("incident_type", Str("Gas Leak")),
         KV("severity", Str("High")), KV("response_time_minutes", JNum(12)),
         KV("vendor_name", Str("Acme")), KV("vendor_type", Str("Equipment")),
         KV("contact_person", Str("A. Nair")), KV("phone", JNum(5550100)),
         KV("email", Str("a@acme.in")), KV("station_id", Str("ST-1")),
         KV("station_name", Str("Central"))>>)
FlawedRow ==
  JObj(<<KV("timestamp", Str("2024-01-02")),
         KV("state", Str("Kerala")), KV("district", Str("Kollam")),
         KV("city", Str("Kollam")), KV("incident_type", JStr(<<>>)),
         KV("severity", Str("Extreme")), KV("response_time_minutes", JNum(0)),
         KV("vendor_name", Str("Bolt")), KV("vendor_type", JStr(<<>>)),
         KV("contact_person", Str("B. Rao")), KV("phone", JNum(0)),
         KV("station_name", Str("North"))>>)
BlankRow == JObj(<<KV("remarks", Str("n/a"))>>)
RowKinds == {ValidRow, FlawedRow, BlankRow}

\* a row whose severity cell holds the number 0
ZeroRow ==
  JObj(<<KV("incident_number", Str("INC-2")), KV("timestamp", Str("2024-01-03")),
         KV("state", Str("Kerala")), KV("district", Str("Kollam")),
         KV("city", Str("Kollam")), KV("incident_type", Str("Gas Leak")),
         KV("severity", JNum(0)), KV("response_time_minutes", JNum(9))>>)

\* every sheet of the three kinds of row, and the short ones with a zero cell
Sheets ==
  UNION {[1..n -> RowKinds] : n \in 0..MaxRows}
    \cup {<<ZeroRow>>, <<ValidRow, ZeroRow>>}

\* a received file: a sheet that parses, or a file XLSX.readFile throws on
DataFile(mimetype, sheet, readable) ==
  [NoFile EXCEPT !.present = TRUE, !.originalname = "data.csv",
                 !.mimetype = mimetype, !.sheet = sheet, !.readable = readable]
\* every sheet as a csv file; under the other types the short sheets
UploadFiles ==
  {NoFile} \cup {DataFile(CsvType, sh, TRUE) : sh \in Sheets}
           \cup {DataFile(m, sh, TRUE) : m \in MimeTypes, sh \in {<<>>, <<ValidRow>>}}
           \cup {DataFile(m, <<>>, FALSE) : m \in MimeTypes}
IngestFiles ==
  {NoFile} \cup {DataFile(CsvType, sh, TRUE) : sh \in Sheets}
           \cup {DataFile(CsvType, <<>>, FALSE)}
IngestBodies ==
  {JObj(<<>>)} \cup
  {JObj(<<KV("template", Str(t))>>) : t \in {"incident", "vendor", "station", "unknown"}}

XlsxError == Str("Unsupported file")
TemplateTypeError == Str("Cannot read properties of undefined (reading 'required')")

\* a slice that keeps everything
Slice_all(seq, n) == seq

\* a slice that keeps the end
Slice_last(seq, n) == SubSeq(seq, Len(seq) - Min(Len(seq), n) + 1, Len(seq))

\* Array.prototype.slice(0, n)
Slice(seq, n) == SubSeq(seq, 1, Min(Len(seq), n))

\* a random name is a fresh one; which of the fresh ones makes no difference
FreshNames(route) ==
  LET fresh == {n \in TempNames : Dest(route) \o n \notin disk}
  IN IF fresh = {} THEN {} ELSE {CHOOSE n \in fresh : TRUE}

\* upload.single('file') with a dest: the temporary file exists when the handler runs
DataReceive(s, route, file, body, name) ==
  /\ Free(s)
  /\ name \in FreshNames(route)
  /\ Accept(s, [IdleReq EXCEPT !.route = route, !.pc = "stored", !.body = body,
                  !.file = IF file.present
                           THEN [file EXCEPT !.path = Dest(route) \o name] ELSE file])
  /\ res' = [res EXCEPT ![s] = NoRes]
  /\ NoInvoke(s)
  /\ disk' = IF file.present THEN disk \cup {Dest(route) \o name} ELSE disk
  /\ UNCHANGED <<fileStorage, puts, studio, crashed>>

UploadReceive(s) ==
  /\ Free(s)
  /\ \E file \in UploadFiles, name \in FreshNames(UploadRoute) :
       DataReceive(s, UploadRoute, file, Undefined, name)

IngestReceive(s) ==
  /\ Free(s)
  /\ \E file \in IngestFiles, body \in IngestBodies, name \in FreshNames(IngestRoute) :
       DataReceive(s, IngestRoute, file, body, name)

\* what a data handler has done when it returns
Outcome(status, body, unlinked, locals) ==
  [status |-> status, body |-> body, unlinked |-> unlinked, locals |-> locals]

\* an upload handler that reads every file as a workbook, whatever its type
upload_handler_readsAll(file) ==
  IF ~file.present
  THEN Outcome(400, JObj(<<KV("error", Str("No file uploaded"))>>), FALSE, Undefined)
  ELSE IF ~file.readable
  THEN Outcome(500, JObj(<<KV("error", XlsxError)>>), FALSE, Undefined)
  ELSE Outcome(200,
         JObj(<<KV("success", JBool(TRUE)),
                KV("message", Str("File uploaded and processed successfully")),
                KV("recordsCount", JNum(Len(file.sheet))),
                KV("sample", JArr(Slice(file.sheet, SampleSize)))>>),
         TRUE, Undefined)

\* the handler of /api/data/upload
upload_handler(file) ==
  IF ~file.present
  THEN Outcome(400, JObj(<<KV("error", Str("No file uploaded"))>>), FALSE, Undefined)
  ELSE LET tabular == \/ Includes(file.mimetype, "excel")
                      \/ Includes(file.mimetype, "spreadsheet")
                      \/ Includes(file.mimetype, "csv")
           data == IF tabular THEN file.sheet ELSE <<>>
       IN IF tabular /\ ~file.readable
          THEN Outcome(500, JObj(<<KV("error", XlsxError)>>), FALSE, Undefined)
          ELSE Outcome(200,
                 JObj(<<KV("success", JBool(TRUE)),
                        KV("message", Str("File uploaded and processed successfully")),
                        KV("recordsCount", JNum(Len(data))),
                        KV("sample", JArr(Slice(data, SampleSize)))>>),
                 TRUE, Undefined)

\* a data handler runs to its response without a suspension point
DataHandle(s, o) ==
  /\ Respond(s, Send(res[s], o.status, o.body))
  /\ disk' = IF o.unlinked THEN disk \ {req[s].file.path} ELSE disk
  /\ req' = [req EXCEPT ![s].pc = "done", ![s].result = o.locals]
  /\ UNCHANGED <<child, closure, promise, spawned, fileStorage, puts, studio, crashed, quota>>

Upload(s) ==
  /\ ~crashed /\ req[s].pc = "stored" /\ req[s].route = UploadRoute
  /\ DataHandle(s, upload_handler(req[s].file))

\* the validation templates: required fields, and the allowed values of the
\* enumerated ones (none for vendor and station, which have no validations)
Allowed(field, values) == [field |-> field, allowedValues |-> values]
templates ==
  [incident |->
     [required |-> <<"incident_number", "timestamp", "state", "district", "city",
                    "incident_type", "severity", "response_time_minutes">>,
      validations |->
        <<Allowed("severity", <<"Low", "Medium", "High", "Critical">>),
          Allowed("incident_type",
                  <<"Building Fire", "Vehicle Fire", "Forest Fire", "Industrial Fire",
                    "Electrical Fire", "Kitchen Fire", "Chemical Fire", "Gas Leak">>)>>],
   vendor |->
     [required |-> <<"vendor_name", "vendor_type", "contact_person", "phone", "email">>,
      validations |-> <<>>],
   station |->
     [required |-> <<"station_id", "station_name", "state", "city">>,
      validations |-> <<>>]]

\* templates[templateType]
TemplateOf(templateType) ==
  IF templateType.t = "str" /\ Len(templateType.s) = 1
     /\ templateType.s[1].c \in DOMAIN templates
  THEN templates[templateType.s[1].c] ELSE Undefined

ValidationError(rowNum, field, message) ==
  JObj(<<KV("row", JNum(rowNum)), KV("field", Str(field)), KV("message", message)>>)
RequiredMessage == Str("Required field missing")

\* allowedValues.join(', ')
RECURSIVE Join(_, _)
Join(values, i) ==
  IF i > Len(values) THEN <<>>
  ELSE (IF i > 1 THEN <<T(", ")>> ELSE <<>>) \o <<T(values[i])>> \o Join(values, i + 1)
EnumMessage(allowedValues) == JStr(<<T("Must be one of: ")>> \o Join(allowedValues, 1))

\* !record[field] || record[field] === ''
IsMissing(record, field) ==
  ~Truthy(GetProp(record, field)) \/ GetProp(record, field) = JStr(<<>>)

\* record[field] && !allowedValues.includes(record[field])
IsDisallowed(record, rule) ==
  /\ Truthy(GetProp(record, rule.field))
  /\ \A i \in 1..Len(rule.allowedValues) :
       GetProp(record, rule.field) # Str(rule.allowedValues[i])

\* validateRecord: the errors of one row, required fields first
validateRecord(record, template, rowNum) ==
  LET missing == SelectSeq(template.required, LAMBDA f : IsMissing(record, f))
      disallowed == SelectSeq(template.validations,
                              LAMBDA rule : IsDisallowed(record, rule))
  IN [i \in 1..Len(missing) |-> ValidationError(rowNum, missing[i], RequiredMessage)]
     \o [i \in 1..Len(disallowed) |->
           ValidationError(rowNum, disallowed[i].field,
                           EnumMessage(disallowed[i].allowedValues))]

\* a loop that keeps every record as a valid one
forEachRecord_allValid(data, template, index, acc) ==
  [validationErrors |->
     Flatten([i \in 1..Len(data) |-> validateRecord(data[i], template, i + 1)]),
   validRecords |-> data]

\* data.forEach((record, index) => ...), index counted from 0
RECURSIVE forEachRecord(_, _, _, _)
forEachRecord(data, template, index, acc) ==
  IF index >= Len(data) THEN acc
  ELSE LET record == data[index + 1]
           errors == validateRecord(record, template, index + FirstRowNum)
       IN forEachRecord(data, template, index + 1,
            IF Len(errors) > 0
            THEN [acc EXCEPT !.validationErrors = @ \o errors]
            ELSE [acc EXCEPT !.validRecords = Append(@, record)])

\* the handler of /ingest
ingest_handler(file, body) ==
  IF ~file.present
  THEN Outcome(400, JObj(<<KV("success", JBool(FALSE)),
                           KV("error", Str("No file uploaded"))>>), FALSE, Undefined)
  ELSE LET templateType == IF Truthy(GetProp(body, "template"))
                           THEN GetProp(body, "template") ELSE Str("incident")
           template == TemplateOf(templateType)
           data == file.sheet
       IN IF ~file.readable
          THEN Outcome(500, JObj(<<KV("success", JBool(FALSE)),
                                   KV("error", XlsxError)>>), FALSE, Undefined)
          ELSE IF template = Undefined /\ Len(data) > 0
          THEN Outcome(500, JObj(<<KV("success", JBool(FALSE)),
                                   KV("error", TemplateTypeError)>>), FALSE, Undefined)
          ELSE LET acc == IF Len(data) = 0
                          THEN [validationErrors |-> <<>>, validRecords |-> <<>>]
                          ELSE forEachRecord(data, template, 0,
                                 [validationErrors |-> <<>>, validRecords |-> <<>>])
               IN Outcome(200,
                    JObj(<<KV("success", JBool(TRUE)),
                           KV("recordsProcessed", JNum(Len(data))),
                           KV("validRecords", JNum(Len(acc.validRecords))),
                           KV("invalidRecords", JNum(Len(data) - Len(acc.validRecords))),
                           KV("validationErrors",
                              JArr(Slice(acc.validationErrors, MaxErrors))),
                           KV("preview", JArr(Slice(acc.validRecords, PreviewSize)))>>),
                    TRUE, acc)

Ingest(s) ==
  /\ ~crashed /\ req[s].pc = "stored" /\ req[s].route = IngestRoute
  /\ DataHandle(s, ingest_handler(req[s].file, req[s].body))

(***************************************************************************)
(* Smart Data Studio page                                                  *)
(***************************************************************************)
\* the most clicks on "add" in one run
MaxClicks == 3

\* useState([]), useState({}); calls: the addVisualization calls awaiting their
\* response, each with the state values its closure holds; answered: history of
\* the calls answered with success, with the data each was given
StudioInit ==
  [selectedVisualizations |-> <<>>, visualizationData |-> <<>>, calls |-> {},
   clicks |-> 0, answered |-> {}]

VizConfigs == {[type |-> "bar"], [type |-> "pie"]}
ChartData == {JArr(<<JNum(1)>>), JArr(<<JNum(2)>>)}
\* response.json() of a prepare-viz call; a fetch that fails throws instead
VizResults ==
  {[success |-> TRUE, data |-> d] : d \in ChartData}
    \cup {[success |-> FALSE, data |-> Undefined]}

BackendUnchanged ==
  UNCHANGED <<req, child, closure, promise, res, spawned, fileStorage, disk, crashed,
              quota, puts>>

\* addVisualization(vizConfig) up to its await: the function belongs to the latest
\* render, and holds that render's selectedVisualizations and visualizationData
AddVisualization(vizConfig) ==
  /\ studio.clicks < MaxClicks
  /\ vizConfig \in VizConfigs
  /\ studio' = [studio EXCEPT
       !.clicks = @ + 1,
       !.calls = @ \cup {[n |-> studio.clicks + 1, vizConfig |-> vizConfig,
                          selectedVisualizations |-> studio.selectedVisualizations,
                          visualizationData |-> studio.visualizationData]}]
  /\ BackendUnchanged

\* const vizId = `viz_${selectedVisualizations.length}`;
\* setSelectedVisualizations([...selectedVisualizations, { ...vizConfig, id: vizId }]);
\* setVisualizationData({ ...visualizationData, [vizId]: result.data });
added(state, call, result) ==
  LET vizId == "viz_" \o ToString(Len(call.selectedVisualizations)) IN
  [state EXCEPT
     !.selectedVisualizations =
        Append(call.selectedVisualizations, [type |-> call.vizConfig.type, id |-> vizId]),
     !.visualizationData = SetMember(call.visualizationData, vizId, result.data)]

\* addVisualization after its await: if (result.success) { ... }
Call(n) == CHOOSE call \in studio.calls : call.n = n
AddVisualizationResponse(n, result) ==
  /\ \E call \in studio.calls : call.n = n
  /\ result \in VizResults
  /\ studio' = [(IF result.success THEN added(studio, Call(n), result) ELSE studio) EXCEPT
       !.calls = studio.calls \ {Call(n)},
       !.answered = IF result.success
                    THEN @ \cup {[n |-> n, data |-> result.data]} ELSE @]
  /\ BackendUnchanged

\* the fetch of a call failed: the catch block logs
AddVisualizationFailed(n) ==
  /\ \E call \in studio.calls : call.n = n
  /\ studio' = [studio EXCEPT !.calls = @ \ {Call(n)}]
  /\ BackendUnchanged

NextStudio ==
  \/ \E vizConfig \in VizConfigs : AddVisualization(vizConfig)
  \/ \E n \in 1..MaxClicks, result \in VizResults : AddVisualizationResponse(n, result)
  \/ \E n \in 1..MaxClicks : AddVisualizationFailed(n)

(***************************************************************************)
(* The gateway                                                             *)
(***************************************************************************)
\* the uploads directory outlives the gateway process; the stores do not
InitWith(requests) ==
  /\ req = [s \in Slots |-> IdleReq]
  /\ child = [s \in Slots |-> NoChild]
  /\ closure = [s \in Slots |-> NoClosure]
  /\ promise = [s \in Slots |-> NoPromise]
  /\ res = [s \in Slots |-> NoRes]
  /\ spawned = [s \in Slots |-> 0]
  /\ fileStorage = [r \in Routers |-> [n \in FileNames |-> NoPath]]
  /\ puts = [r \in Routers |-> [n \in FileNames |-> [count |-> 0, path |-> NoPath]]]
  /\ studio = StudioInit
  /\ disk \in {{}, {UploadPath("data.csv")}}
  /\ crashed = FALSE
  /\ quota = requests

Init == InitWith(MaxRequests)

\* the uploads directory is shared with whoever administers the host: between two
\* exchanges an uploaded file may be removed from it. The exchange that went
\* before is over, and its record is dropped
UploadRemoved(s, name) ==
  /\ Free(s)
  /\ UploadPath(name) \in disk
  /\ disk' = disk \ {UploadPath(name)}
  /\ req' = [req EXCEPT ![s] = IdleReq]
  /\ res' = [res EXCEPT ![s] = NoRes]
  /\ NoInvoke(s)
  /\ UNCHANGED <<fileStorage, puts, studio, crashed, quota>>

\* a new request on connection s
Request(s) ==
  \/ Health(s)
  \/ \E route \in KpiRoutes : KpiRequest(s, route)
  \/ \E filters \in SearchFilters : SearchRequest(s, filters)
  \/ \E route \in ReportRoutes : ReportRequest(s, route)
  \/ \E router \in Routers, file \in AnalyzeFiles : AnalyzeUpload(s, router, file)
  \/ \E body \in PrepareVizBodies, t \in Clock : SmartPrepareViz(s, body, t)
  \/ \E body \in PrepareVizBodies, t \in Clock : AiPrepareViz(s, body, t)
  \/ \E body \in PrepareVizBodies, t \in Clock : Ai2PrepareViz(s, body, t)
  \/ \E body \in GenerateReportBodies : SmartGenerateReport(s, body)
  \/ \E body \in GenerateReportBodies : AiGenerateReport(s, body)
  \/ \E body \in GenerateReportBodies : Ai2GenerateReport(s, body)

\* a handler runs on from where it was suspended
Resume(s) ==
  \/ MainResume(s)
  \/ ReportResume(s) \/ \E aborted \in BOOLEAN : ReportDownload(s, aborted)
  \/ SmartAnalyze(s) \/ SmartAnalyzeResume(s)
  \/ SmartPrepareVizResume(s)
  \/ SmartGenerateReportResume(s)
  \/ AiAnalyze(s) \/ \E t \in Clock : AiAnalyzeResume(s, t)
  \/ \E t \in Clock : AiPrepResume(s, t)
  \/ AiPrepareVizResume(s) \/ AiGenerateReportResume(s)
  \/ Ai2Analyze(s) \/ Ai2AnalyzeResume(s)
  \/ Ai2PrepareVizResume(s) \/ Ai2GenerateReportResume(s)
  \/ RouterDownload(s)

\* an external process writes, ends, or fails to start
Process(s, rich, maxOut, maxErr) ==
  \/ \E chunk \in StdoutChunks(child[s].script, rich) : ChildStdout(s, chunk, maxOut)
  \/ \E chunk \in StderrChunks : ChildStderr(s, chunk, maxErr)
  \/ ChildWritesReport(s)
  \/ \E code \in ExitCodes : ChildClose(s, code)
  \/ ChildError(s)

\* one connection, requests served one after the other, processes that write
\* whole documents or stray text
Next ==
  \E s \in {1} :
    \/ Request(s)
    \/ Resume(s)
    \/ Process(s, FALSE, 1, 1)
    \/ \E name \in FileNames : UploadRemoved(s, name)

Spec == Init /\ [][Next]_vars

\* one request, to a process that may write any lexemes in any chunks
NextInvoker ==
  \E s \in {1} :
    \/ Request(s)
    \/ Resume(s)
    \/ Process(s, TRUE, MaxOutChunks, MaxErrChunks)

SpecInvoker == InitWith(1) /\ [][NextInvoker]_vars

\* the data handlers on their own: one request, with every sheet of up to MaxRows rows
NextData ==
  \E s \in {1} :
    \/ UploadReceive(s)
    \/ IngestReceive(s)
    \/ Upload(s)
    \/ Ingest(s)
SpecData == InitWith(1) /\ [][NextData]_vars

\* the ai router's analyze on its own: one upload, an analysis that suggests up to
\* MaxVisualizations visualizations, preparations that deliver or fail
NextAnalyze ==
  \E s \in {1} :
    \/ \E file \in AnalyzeFiles : AnalyzeUpload(s, "ai", file)
    \/ AiAnalyze(s)
    \/ \E t \in Clock : AiAnalyzeResume(s, t)
    \/ \E t \in Clock : AiPrepResume(s, t)
    \/ \E chunk \in {Stringify(d) : d \in AnalyzeDocs(child[s].script)} :
         ChildStdout(s, chunk, 1)
    \/ \E code \in ExitCodes : ChildClose(s, code)
SpecAnalyze == InitWith(1) /\ [][NextAnalyze]_vars

\* the Smart Data Studio page on its own, against a backend that answers anything
SpecStudio == InitWith(1) /\ [][NextStudio]_vars

\* two connections served at once: analyze and prepare-viz of the smart and ai
\* routers, each with its own external processes, interleaved in any order
NextConcurrent ==
  \E s \in Slots :
    \/ \E body \in PrepareVizBodies, t \in Clock : SmartPrepareViz(s, body, t)
    \/ \E body \in PrepareVizBodies, t \in Clock : AiPrepareViz(s, body, t)
    \/ \E file \in AnalyzeFiles : AnalyzeUpload(s, "ai", file)
    \/ AiAnalyze(s)
    \/ \E t \in Clock : AiAnalyzeResume(s, t)
    \/ \E t \in Clock : AiPrepResume(s, t)
    \/ SmartPrepareVizResume(s)
    \/ AiPrepareVizResume(s)
    \/ \E chunk \in {Stringify(d) : d \in ScriptDocs(child[s].script)} :
         ChildStdout(s, chunk, 1)
    \/ \E code \in ExitCodes : ChildClose(s, code)
SpecConcurrent == InitWith(2) /\ [][NextConcurrent]_vars

\* the event loop runs a handler on once the promise it awaits has settled; nothing
\* makes an external process write or exit
Continue(s) ==
  \/ AiAnalyze(s)
  \/ \E t \in Clock : AiAnalyzeResume(s, t)
  \/ \E t \in Clock : AiPrepResume(s, t)
  \/ SmartPrepareVizResume(s)
  \/ AiPrepareVizResume(s)
SpecEventLoop == SpecConcurrent /\ \A s \in Slots : WF_vars(Continue(s))

(***************************************************************************)
(* Process invoker: what a finished call leaves                            *)
(***************************************************************************)
Closed(s) == child[s].st = "closed"
Stdout(s) == Flatten(child[s].out)
Stderr(s) == Flatten(child[s].err)
Answered(s) == req[s].pc = "done" /\ res[s].sends > 0
SaysFailure(body) == body.t = "obj" /\ GetProp(body, "success") = JBool(FALSE)
InvalidJsonMessages ==
  {Str("Invalid JSON response from Python"), Str("Invalid JSON from Python"),
   Str("Invalid JSON")}
ExitMessages(code) ==
  {JStr(<<T(m)>> \o Digits(code)) :
     m \in {"Python script exited with code ", "Python exited with code ", "Exit code "}}

C2_StderrIsTheMessage ==
  \A s \in Slots :
    (Closed(s) /\ child[s].code # 0 /\ Stderr(s) # <<>>)
      => /\ promise[s].st = "rejected"
         /\ promise[s].v = JStr(Stderr(s))

C2_Witness ==
  /\ Closed(1) /\ child[1].code = 2 /\ child[1].variant = "smart"
  /\ child[1].err = <<<<T("warning")>>, <<T("Traceback")>>>>
  /\ child[1].out # <<>>
  /\ promise[1].v = JStr(<<T("warning"), T("Traceback")>>)

\* C3: in every invoker, a process that exits non-zero with an empty stderr
\* rejects with its stdout text if there is any, and with the generic
\* exit-code message only when both streams are empty.
C3_StdoutFallback ==
  \A s \in Slots :
    (Closed(s) /\ child[s].code # 0 /\ Stderr(s) = <<>>)
      => /\ promise[s].st = "rejected"
         /\ Stdout(s) # <<>> => promise[s].v = JStr(Stdout(s))
         /\ Stdout(s) = <<>> => promise[s].v \in ExitMessages(child[s].code)

\* C4: every invoker call whose process ends or fails to start settles its
\* pending result exactly once, resolved or rejected.
C4_SettlesOnce ==
  \A s \in Slots :
    child[s].st \in {"closed", "failed"}
      => promise[s].settles = 1 /\ promise[s].st \in {"resolved", "rejected"}

\* what the invokers do with an exit 0 and unparseable output
LenientOrStrict(s) ==
  IF child[s].variant = "main"
  THEN promise[s].st = "resolved" /\ promise[s].v = JStr(Stdout(s))
  ELSE promise[s].st = "rejected" /\ promise[s].v \in InvalidJsonMessages

\* C5 as claimed: on exit 0 with unparseable output runPythonScript resolves with
\* the raw text and runPython rejects with an invalid-JSON error, which the
\* calling handler answers with a 500 that says success false.
C5_AsClaimed ==
  \A s \in Slots :
    (Closed(s) /\ child[s].code = 0 /\ ~JSONParse(Stdout(s)).ok)
      => /\ LenientOrStrict(s)
         /\ (child[s].variant # "main" /\ Answered(s))
              => res[s].status = 500 /\ SaysFailure(res[s].body)

\* the call was one of the per-visualization preparations of the ai router's analyze
InPreparation(s) == req[s].route = AnalyzeRoute("ai") /\ spawned[s] > 1

\* C5, amended: as claimed, except that a rejection inside the preparation loop of
\* the ai router's analyze is skipped, and that request is answered 200 with the
\* analysis result.
C5_InvalidJson ==
  \A s \in Slots :
    (Closed(s) /\ child[s].code = 0 /\ ~JSONParse(Stdout(s)).ok)
      => /\ LenientOrStrict(s)
         /\ (child[s].variant # "main" /\ Answered(s))
              => IF InPreparation(s)
                 THEN res[s].status = 200 /\ res[s].body = req[s].result
                 ELSE res[s].status = 500 /\ SaysFailure(res[s].body)

C5_Witness ==
  /\ Closed(1) /\ child[1].code = 0 /\ child[1].variant = "ai"
  /\ child[1].out = <<Stringify(VizDoc), <<T("x")>>>>
  /\ req[1].route = PrepareVizRoute("ai") /\ Answered(1)
  /\ res[1].status = 500
  /\ res[1].body = JObj(<<KV("success", JBool(FALSE)),
                          KV("error", Str("Invalid JSON from Python"))>>)

(***************************************************************************)
(* Main gateway handlers                                                   *)
(***************************************************************************)
\* C6: a KPI / analytics / vendor-performance GET and the incident search answer
\* 200 with the invoker's result unchanged when it resolves, and 500 with the
\* rejection's message when it rejects.
C6_PassThrough ==
  \A s \in Slots :
    (req[s].route \in KpiRoutes \cup {SearchRoute} /\ req[s].pc = "done")
      => /\ res[s].sends = 1
         /\ promise[s].st = "resolved"
              => res[s].status = 200 /\ res[s].body = promise[s].v
         /\ promise[s].st = "rejected"
              => res[s].status = 500
                 /\ res[s].body = JObj(<<KV("error", promise[s].v)>>)

C6_Witness ==
  /\ req[1].route = "/api/vendors/performance" /\ req[1].pc = "done"
  /\ promise[1].st = "rejected" /\ promise[1].v = JStr(<<T("Traceback")>>)
  /\ res[1].status = 500

HealthAnswer ==
  [sends |-> 1, status |-> 200,
   body |-> JObj(<<KV("status", Str("OK")),
                   KV("message", Str("Fire Department Analytics API is running"))>>)]

\* C7: whatever came before, a health check is answered 200 with the same fixed
\* payload, starts no process, and leaves the upload session stores and the disk
\* as they were.
C7_HealthIsFixed ==
  [][\A s \in Slots :
       (quota' = quota - 1 /\ req'[s].route = "/api/health")
         => /\ res'[s] = HealthAnswer
            /\ spawned'[s] = 0 /\ child'[s].st = "none"
            /\ fileStorage' = fileStorage /\ disk' = disk]_vars

C7_Witness ==
  /\ req[1].route = "/api/health" /\ res[1] = HealthAnswer
  /\ quota = 0
  /\ fileStorage["ai"]["data.csv"] = UploadPath("data.csv")
  /\ UploadPath("data.csv") \in disk

(***************************************************************************)
(* Data uploads                                                            *)
(***************************************************************************)
TabularTypes == {CsvType, XlsType, XlsxType}
FirstRows(sheet) == [i \in 1..(IF Len(sheet) < 5 THEN Len(sheet) ELSE 5) |-> sheet[i]]

\* C8: a raw upload of a file of a tabular MIME type that parses into n rows is
\* answered with success true, recordsCount n and the first min(n, 5) rows in
\* their order as the sample, and its temporary file is gone when it is answered.
C8_UploadCounts ==
  \A s \in Slots :
    (/\ req[s].route = UploadRoute /\ Answered(s)
     /\ req[s].file.present /\ req[s].file.readable
     /\ req[s].file.mimetype \in TabularTypes)
      => /\ res[s].status = 200
         /\ GetProp(res[s].body, "success") = JBool(TRUE)
         /\ GetProp(res[s].body, "recordsCount") = JNum(Len(req[s].file.sheet))
         /\ GetProp(res[s].body, "sample") = JArr(FirstRows(req[s].file.sheet))
         /\ req[s].file.path \notin disk

C8_Witness ==
  /\ req[1].route = UploadRoute /\ Answered(1)
  /\ req[1].file.mimetype = CsvType
  /\ Len(req[1].file.sheet) > 5
  /\ req[1].file.sheet[1] = FlawedRow /\ req[1].file.sheet[5] = BlankRow
  /\ req[1].file.sheet[6] = ValidRow
  /\ GetProp(res[1].body, "recordsCount") = JNum(Len(req[1].file.sheet))
  /\ Len(GetProp(res[1].body, "sample").items) = 5

\* C9: whenever a raw upload or a templated ingestion that came with a file is
\* answered, with success, a parse failure or a validation exception, its
\* temporary file has been deleted.
C9_TempFileDeleted ==
  \A s \in Slots :
    (req[s].route \in {UploadRoute, IngestRoute} /\ Answered(s) /\ req[s].file.present)
      => req[s].file.path \notin disk

\* the errors of a validated sheet that are about one field of one row
ErrorsAbout(errors, rowNum, field) ==
  SelectSeq(errors, LAMBDA e : /\ GetProp(e, "row") = JNum(rowNum)
                               /\ GetProp(e, "field") = Str(field))
TemplateNamed(body) ==
  IF GetProp(body, "template") = Undefined THEN Str("incident")
  ELSE GetProp(body, "template")

\* C10: in a templated ingestion, for the row of index i and a required field f: if
\* the row has no f or an empty one, exactly one error names f for row number
\* i + 2, and it is the required-field error; if the row has a non-empty f, no
\* required-field error names f for that row.
C10_RequiredFields ==
  \A s \in Slots :
    (/\ req[s].route = IngestRoute /\ Answered(s) /\ res[s].status = 200
     /\ TemplateOf(TemplateNamed(req[s].body)) # Undefined)
      => LET template == TemplateOf(TemplateNamed(req[s].body))
             sheet == req[s].file.sheet
             errors == req[s].result.validationErrors
         IN \A i \in 0..(Len(sheet) - 1) :
              \A k \in 1..Len(template.required) :
                LET f == template.required[k]
                    about == ErrorsAbout(errors, i + 2, f)
                IN IF GetProp(sheet[i + 1], f) \in {Undefined, JStr(<<>>)}
                   THEN /\ Len(about) = 1
                        /\ GetProp(about[1], "message") = Str("Required field missing")
                   ELSE \A j \in 1..Len(about) :
                          GetProp(about[j], "message") # Str("Required field missing")

\* the message names every allowed value
ListsAll(message, allowedValues) ==
  /\ message.t = "str" /\ message.s # <<>>
  /\ message.s[1] = T("Must be one of: ")
  /\ \A i \in 1..Len(allowedValues) :
       \E j \in 2..Len(message.s) : message.s[j] = T(allowedValues[i])
IsEnumError(e) == GetProp(e, "message") # Str("Required field missing")

\* C11: in a templated ingestion, for every row and every enumerated field of the
\* template: a value that is there and is not an allowed one gets exactly one
\* error for that row and field, and its message lists all the allowed values;
\* an allowed value gets no enumerated-value error.
C11_EnumeratedValues ==
  \A s \in Slots :
    (/\ req[s].route = IngestRoute /\ Answered(s) /\ res[s].status = 200
     /\ TemplateOf(TemplateNamed(req[s].body)) # Undefined)
      => LET template == TemplateOf(TemplateNamed(req[s].body))
             sheet == req[s].file.sheet
             errors == req[s].result.validationErrors
         IN \A i \in 0..(Len(sheet) - 1) :
              \A k \in 1..Len(template.validations) :
                LET rule == template.validations[k]
                    v == GetProp(sheet[i + 1], rule.field)
                    about == ErrorsAbout(errors, i + 2, rule.field)
                    allowed == {Str(rule.allowedValues[j]) :
                                  j \in 1..Len(rule.allowedValues)}
                IN /\ (v \notin {Undefined, JStr(<<>>)} /\ v \notin allowed)
                        => /\ Len(about) = 1
                           /\ ListsAll(GetProp(about[1], "message"), rule.allowedValues)
                   /\ v \in allowed
                        => \A j \in 1..Len(about) : ~IsEnumError(about[j])

\* an ingestion that was answered with its counts
Ingested(s) == req[s].route = IngestRoute /\ Answered(s) /\ res[s].status = 200

\* the rows (counted from 1) that some error of the sheet is about
RowsWithErrors(sheet, errors) ==
  {i \in 1..Len(sheet) :
     \E k \in 1..Len(errors) : GetProp(errors[k], "row") = JNum(i + 1)}

\* the rows of seq at the positions in keep, in their order
RECURSIVE Kept(_, _, _)
Kept(seq, keep, i) ==
  IF i > Len(seq) THEN <<>>
  ELSE (IF i \in keep THEN <<seq[i]>> ELSE <<>>) \o Kept(seq, keep, i + 1)

\* C12: a successful templated ingestion of n rows counts every row in exactly one
\* of the two partitions: validRecords is the number of rows without an error,
\* invalidRecords the number of rows with one, and their sum is recordsProcessed = n.
C12_Partition ==
  \A s \in Slots :
    Ingested(s)
      => LET sheet == req[s].file.sheet
             bad == RowsWithErrors(sheet, req[s].result.validationErrors)
         IN /\ GetProp(res[s].body, "recordsProcessed") = JNum(Len(sheet))
            /\ GetProp(res[s].body, "invalidRecords") = JNum(Cardinality(bad))
            /\ GetProp(res[s].body, "validRecords") = JNum(Len(sheet) - Cardinality(bad))
            /\ req[s].result.validRecords = Kept(sheet, (1..Len(sheet)) \ bad, 1)

C12_Witness ==
  /\ Ingested(1)
  /\ req[1].file.sheet =
       <<ValidRow, BlankRow, ValidRow, ValidRow, BlankRow, ValidRow, ValidRow>>
  /\ GetProp(req[1].body, "template") = Str("incident")
  /\ GetProp(res[1].body, "recordsProcessed") = JNum(7)
  /\ GetProp(res[1].body, "invalidRecords") = JNum(2)
  /\ GetProp(res[1].body, "validRecords") = JNum(5)
  /\ Len(SelectSeq(req[1].result.validationErrors,
                   LAMBDA e : GetProp(e, "field") = Str("severity"))) = 2

FirstOf(seq, cap) == [i \in 1..(IF Len(seq) < cap THEN Len(seq) ELSE cap) |-> seq[i]]
RowOrdered(errors) ==
  \A j \in 1..(Len(errors) - 1) :
    GetProp(errors[j], "row").n <= GetProp(errors[j + 1], "row").n

\* C13: the response of a templated ingestion carries the first min(50, total)
\* errors in row order and the first min(5, valid) valid rows in row order, and its
\* three counts are those of all the rows, whatever the caps cut.
C13_Caps ==
  \A s \in Slots :
    Ingested(s)
      => LET sheet == req[s].file.sheet
             errors == req[s].result.validationErrors
             bad == RowsWithErrors(sheet, errors)
             valid == Kept(sheet, (1..Len(sheet)) \ bad, 1)
         IN /\ RowOrdered(errors)
            /\ GetProp(res[s].body, "validationErrors") = JArr(FirstOf(errors, 50))
            /\ GetProp(res[s].body, "preview") = JArr(FirstOf(valid, 5))
            /\ GetProp(res[s].body, "recordsProcessed") = JNum(Len(sheet))
            /\ GetProp(res[s].body, "validRecords") = JNum(Len(valid))
            /\ GetProp(res[s].body, "invalidRecords") = JNum(Cardinality(bad))

C13_Witness ==
  /\ Ingested(1)
  /\ req[1].file.sheet = [i \in 1..7 |-> BlankRow]
  /\ GetProp(req[1].body, "template") = Undefined
  /\ Len(req[1].result.validationErrors) = 56
  /\ Len(GetProp(res[1].body, "validationErrors").items) = 50
  /\ GetProp(GetProp(res[1].body, "validationErrors").items[50], "row") = JNum(8)
  /\ GetProp(res[1].body, "invalidRecords") = JNum(7)

(***************************************************************************)
(* Reports                                                                 *)
(***************************************************************************)
\* C14: when the process of generate-pdf or generate-excel reports a file path
\* that is not on disk, the request is answered 404, not with a server error.
C14_MissingReportIs404 ==
  \A s \in Slots :
    (/\ req[s].route \in ReportRoutes /\ Answered(s)
     /\ promise[s].st = "resolved"
     /\ GetProp(promise[s].v, "file_path") = Str(ReportPath)
     /\ ReportPath \notin disk)
      => res[s].status = 404

\* the router a route belongs to, and the file a request names
RouterOf(route) == CHOOSE r \in Routers : route \in {AnalyzeRoute(r), PrepareVizRoute(r),
                                                      GenerateReportRoute(r)}
NamedFile(s) == GetProp(req[s].body, "filename").s[1].c
StoredOrFallback(s) ==
  LET stored == Get(fileStorage[RouterOf(req[s].route)], NamedFile(s))
  IN IF stored # "" /\ stored \in disk THEN stored ELSE "uploads/" \o NamedFile(s)

\* C15: generate-report of the routers. A resolved upload path that does not exist
\* is answered 404 and no process is started. Otherwise one process runs: a result
\* with success true and a PDF path that exists is sent as a download; success true
\* with a missing PDF is answered 404; success false, or a rejection, is answered 500.
C15_GenerateReport ==
  \A s \in Slots :
    (/\ req[s].route \in {GenerateReportRoute(r) : r \in Routers}
     /\ req[s].pc = "done"
     /\ GetProp(req[s].body, "filename") # Undefined)
      => LET v == promise[s].v
             pdf == GetProp(v, "path")
         IN IF StoredOrFallback(s) \notin disk
            THEN res[s].status = 404 /\ res[s].sends = 1
                 /\ spawned[s] = 0 /\ child[s].st = "none"
            ELSE /\ spawned[s] = 1 /\ res[s].sends = 1
                 /\ promise[s].st = "rejected" => res[s].status = 500
                 /\ (promise[s].st = "resolved" /\ GetProp(v, "success") = JBool(FALSE))
                      => res[s].status = 500
                 /\ (promise[s].st = "resolved" /\ GetProp(v, "success") = JBool(TRUE))
                      => IF pdf.t = "str" /\ pdf.s[1].c \in disk
                         THEN /\ res[s].status = 200
                              /\ res[s].body.t = "file"
                              /\ res[s].body.path = pdf.s[1].c
                         ELSE res[s].status = 404

C15_Witness ==
  /\ req[1].route = GenerateReportRoute("ai") /\ req[1].pc = "done"
  /\ GetProp(req[1].body, "filename") = Str("data.csv")
  /\ StoredOrFallback(1) \in disk
  /\ promise[1].st = "resolved" /\ GetProp(promise[1].v, "success") = JBool(TRUE)
  /\ ReportPath \notin disk
  /\ res[1].status = 404
  /\ GetProp(res[1].body, "error") = Str("PDF not found")

(***************************************************************************)
(* Upload session store                                                    *)
(***************************************************************************)
\* C16: after any sequence of analyze uploads, a lookup of a name in the store of
\* a router returns the path of the latest put for that name, whatever was put
\* before, and nothing for a name that was never put.
C16_LastWriteWins ==
  \A r \in Routers, n \in FileNames :
    IF puts[r][n].count = 0
    THEN Get(fileStorage[r], n) = ""
    ELSE Get(fileStorage[r], n) = puts[r][n].path

(***************************************************************************)
(* Path resolution                                                         *)
(***************************************************************************)
ResolvingRoutes == {PrepareVizRoute(r) : r \in Routers} \cup {GenerateReportRoute(r) : r \in Routers}

\* the request names a file and has come as far as resolving its path: the smart
\* router's prepare-viz checks its two parameters first
Resolves(s) ==
  /\ req[s].route \in ResolvingRoutes
  /\ GetProp(req[s].body, "filename") # Undefined
  /\ req[s].route = PrepareVizRoute("smart") => GetProp(req[s].body, "viz_config") # Undefined

FileNotFound == Str("File not found")
FileNotFoundUploadAgain == Str("File not found. Please upload again.")
NotFoundMessage(route) ==
  IF route = GenerateReportRoute("smart") THEN FileNotFoundUploadAgain ELSE FileNotFound

SaysNotFound(s, message) ==
  /\ res[s].status = 404
  /\ res[s].body = JObj(<<KV("success", JBool(FALSE)), KV("error", message)>>)

\* answered 404 with the message; nothing written, nothing started
Refused(s, message) ==
  /\ req[s].pc = "done" /\ res[s].sends = 1
  /\ SaysNotFound(s, message)
  /\ req[s].tempConfig = ""
  /\ spawned[s] = 0 /\ child[s] = NoChild

\* not refused as missing, and a process that was started was given the path
Used(s, path) ==
  /\ \A message \in {FileNotFound, FileNotFoundUploadAgain} : ~SaysNotFound(s, message)
  /\ child[s].st # "none" => \E k \in DOMAIN child[s].args : child[s].args[k] = Arg(path)

\* C17 as the claim words it: in prepare-viz and generate-report of the routers the
\* path is the stored one when the store has one that exists on disk, else the
\* uploads directory joined with the name; a path that does not exist is answered
\* 404 'File not found' in every one of these handlers, with no transient config
\* file written and no process started.
C17_AsClaimed ==
  \A s \in Slots : Resolves(s) =>
    IF StoredOrFallback(s) \in disk THEN Used(s, StoredOrFallback(s))
    ELSE Refused(s, FileNotFound)

\* C17: in prepare-viz and generate-report of the routers the path is the stored one
\* when the store has one that exists on disk, else the uploads directory joined
\* with the name. A path that does not exist is answered 404, with the message
\* 'File not found' (in the smart router's generate-report 'File not found. Please
\* upload again.'), no transient config file written and no process started; a path
\* that exists is never answered so, and is the path handed to the process.
C17_ResolvedPath ==
  \A s \in Slots : Resolves(s) =>
    IF StoredOrFallback(s) \in disk THEN Used(s, StoredOrFallback(s))
    ELSE Refused(s, NotFoundMessage(req[s].route))

\* a name whose stored path was removed from disk is resolved and refused
C17_Witness ==
  /\ req[1].route = PrepareVizRoute("ai")
  /\ GetProp(req[1].body, "filename") = Str("data.csv")
  /\ fileStorage["ai"]["data.csv"] = UploadPath("data.csv")
  /\ UploadPath("data.csv") \notin disk
  /\ Refused(1, FileNotFound)

\* a name the store does not hold is found in the uploads directory and handed on
C17_Fallback ==
  /\ req[1].route = GenerateReportRoute("smart")
  /\ GetProp(req[1].body, "filename") = Str("__proto__")
  /\ child[1].st = "running" /\ child[1].args = <<Arg(UploadPath("__proto__"))>>

(***************************************************************************)
(* Malformed requests                                                      *)
(***************************************************************************)
\* a request without its file, or a prepare-viz without one of its two parameters
Malformed(s) ==
  \/ /\ req[s].route \in {AnalyzeRoute(r) : r \in Routers} \cup {UploadRoute, IngestRoute}
     /\ ~req[s].file.present
  \/ /\ req[s].route \in {PrepareVizRoute(r) : r \in Routers}
     /\ \/ GetProp(req[s].body, "filename") = Undefined
        \/ GetProp(req[s].body, "viz_config") = Undefined

\* C18: a malformed request (analyze, raw upload or ingestion without a file;
\* prepare-viz without a filename or without a viz_config, in every router) starts
\* no external process and is answered 400 with a body carrying an error message.
C18_MalformedIs400 ==
  \A s \in Slots : Malformed(s) =>
    /\ spawned[s] = 0 /\ child[s] = NoChild
    /\ req[s].pc = "done" =>
         /\ res[s].status = 400
         /\ res[s].body.t = "obj"
         /\ GetProp(res[s].body, "error").t = "str"

(***************************************************************************)
(* Ai analyze: the preparation loop                                        *)
(***************************************************************************)
Visualizations(result) ==
  IF result.t = "obj" /\ GetProp(result, "visualizations").t = "arr"
  THEN GetProp(result, "visualizations").items ELSE <<>>
TransientFiles == {f \in disk : f \notin {UploadPath(n) : n \in FileNames}}

C19_Failure ==
  /\ req[1].route = AnalyzeRoute("ai") /\ Answered(1)
  /\ res[1] = [sends |-> 1, status |-> 500, body |-> FailureDoc]
  /\ spawned[1] = 1

\* the preparation awaited has delivered: resolved with success and data
Delivered(p) ==
  /\ p.st = "resolved" /\ p.v.t = "obj"
  /\ Truthy(GetProp(p.v, "success")) /\ Truthy(GetProp(p.v, "data"))

\* C20: in the ai router's analyze, when the preparation of visualization i is over,
\* however it ended, the handler goes on to visualization i + 1, or after the last
\* one answers 200 with the result. A preparation that delivered leaves its data on
\* visualization i; one that was rejected, or resolved without success or without
\* data, leaves visualization i as it was, without data. No other visualization
\* is touched.
C20_TolerantLoop ==
  [][\A s \in Slots :
       (req[s].route = AnalyzeRoute("ai") /\ req[s].pc = "await-prep"
        /\ req'[s] # req[s]) =>
         LET i == req[s].i
             before == Visualizations(req[s].result)
             after == Visualizations(req'[s].result) IN
         /\ Len(after) = Len(before)
         /\ \A k \in 1..Len(before) : k # i + 1 => after[k] = before[k]
         /\ IF Delivered(promise[s])
            THEN after[i + 1] = JObj(SetMember(before[i + 1].members, "data",
                                               GetProp(promise[s].v, "data")))
            ELSE after[i + 1] = before[i + 1] /\ GetProp(after[i + 1], "data") = Undefined
         /\ IF i + 1 < Min(Len(before), 10)
            THEN req'[s].pc = "await-prep" /\ req'[s].i = i + 1
            ELSE /\ req'[s].pc = "done"
                 /\ res'[s] = [sends |-> 1, status |-> 200, body |-> req'[s].result]]_vars

\* the first preparation failed, the second delivered, and the answer is 200
C20_Witness ==
  /\ req[1].route = AnalyzeRoute("ai") /\ Answered(1) /\ res[1].status = 200
  /\ spawned[1] = 3
  /\ GetProp(Visualizations(res[1].body)[1], "data") = Undefined
  /\ GetProp(Visualizations(res[1].body)[2], "data") = JArr(<<JNum(1)>>)

(***************************************************************************)
(* Transient configuration files                                           *)
(***************************************************************************)
ConfigRoutes == {PrepareVizRoute(r) : r \in Routers} \cup {AnalyzeRoute("ai")}
ConfigFiles == TransientFiles \ {ReportPath}

\* C21: when a prepare-viz request, or an analyze request of the ai router, has been
\* answered, none of the transient configuration files it wrote is left in the
\* uploads directory, whether its invoker calls resolved or were rejected.
C21_ConfigDeleted ==
  \A s \in Slots : (req[s].route \in ConfigRoutes /\ Answered(s)) => ConfigFiles = {}

(***************************************************************************)
(* Concurrent requests                                                     *)
(***************************************************************************)
\* the request on s has written a config file and its process has not been awaited
Holding(s) == req[s].pc \in {"await", "await-prep"} /\ req[s].tempConfig # ""

\* C22: two requests in flight never hold the same transient configuration file:
\* no request writes its configuration under a name another request is using,
\* whatever the clock values they read.
C22_UniqueConfigNames ==
  \A s1, s2 \in Slots :
    (s1 # s2 /\ Holding(s1) /\ Holding(s2)) => req[s1].tempConfig # req[s2].tempConfig

\* the request on s is an analyze of the ai router whose put has run
HasPut(s) ==
  /\ req[s].route = AnalyzeRoute("ai") /\ req[s].file.present
  /\ req[s].pc \in {"await", "await-prep", "done"}

\* C23: when two analyze requests with files of one original name are in flight
\* together and both puts have run, the store gives for that name the path of the
\* put that ran last, which is the path of both uploads, and every preparation
\* step of the two requests is handed that path.
C23_LastPutOfTwo ==
  \A s1, s2 \in Slots :
    (s1 # s2 /\ HasPut(s1) /\ HasPut(s2)
     /\ req[s1].file.originalname = req[s2].file.originalname) =>
      LET name == req[s1].file.originalname IN
      /\ puts["ai"][name].count = 2
      /\ Get(fileStorage["ai"], name) = puts["ai"][name].path
      /\ puts["ai"][name].path \in {req[s1].file.path, req[s2].file.path}
      /\ \A s \in {s1, s2} :
           req[s].pc = "await-prep" => child[s].args[1] = Arg(puts["ai"][name].path)

Waiting(s) == req[s].pc \in {"await", "await-prep"}

\* C24: a request is never answered while the process it waits on is running, so a
\* process that never exits leaves its request without a response; and whenever the
\* process a request waits on has exited, that request is answered or goes on to
\* its next process, whatever the processes of the other requests do.
C24_HungBlocksOnlyItsOwn ==
  /\ [](\A s \in Slots : child[s].st = "running" => (Waiting(s) /\ res[s].sends = 0))
  /\ \A s \in Slots :
       (Waiting(s) /\ child[s].st = "closed") ~> (Answered(s) \/ child[s].st = "running")

\* one request is answered while the process of the other is still running
C24_Witness ==
  /\ child[1].st = "running" /\ Waiting(1)
  /\ Answered(2) /\ spawned[2] > 0 /\ child[2].st = "closed"

\* the processes of both requests run at once
C24_BothRunning == \A s \in Slots : child[s].st = "running"

PutsNow(s, r) ==
  /\ req[s].route = AnalyzeRoute(r) /\ req[s].pc = "stored" /\ req[s].file.present
  /\ req'[s].pc = "await"

\* a step that changes the store is such a handler, changes the one entry of the
\* file's original name, and starts the analysis process after it
OnlyAnalyzeChanges ==
  fileStorage' # fileStorage =>
    \E s \in Slots, r \in Routers :
      /\ PutsNow(s, r)
      /\ fileStorage' = [fileStorage EXCEPT ![r][req[s].file.originalname] = req[s].file.path]
      /\ child[s].st # "running" /\ child'[s].st = "running"

NeverRemoved ==
  \A r \in Routers, n \in FileNames : fileStorage[r][n] # NoPath => fileStorage'[r][n] # NoPath

\* C26: the store is changed only by the handler of an analyze request with a file;
\* that handler sets the entry of the file's original name to the file's path, and no
\* other entry, before it starts the analysis process; every other step, failures
\* after the put included, leaves the store as it is, and no entry is ever removed.
C26_StoreFrame ==
  [][/\ OnlyAnalyzeChanges
     /\ NeverRemoved
     /\ \A s \in Slots, r \in Routers :
          PutsNow(s, r) => Get(fileStorage'[r], req[s].file.originalname) = req[s].file.path]_vars

(***************************************************************************)
(* Stored path and fallback path                                           *)
(***************************************************************************)
\* C27: every entry of a router's store maps its name to the uploads directory
\* joined with that name, so path resolution yields that path for every name,
\* whether the router's store holds it or not: a prepare-viz or generate-report
\* hands its process the same path whichever router's analyze received the file.
C27_StoredIsFallback ==
  /\ \A r \in Routers, n \in FileNames :
       /\ fileStorage[r][n] \in {NoPath, "uploads/" \o n}
       /\ resolvePath(fileStorage[r], n) = "uploads/" \o n
  /\ \A s \in Slots :
       (Resolves(s) /\ child[s].st # "none") =>
         \E k \in DOMAIN child[s].args :
           child[s].args[k] = Arg("uploads/" \o NamedFile(s))

\* a file received by the ai router's analyze is handed on by the smart router's
\* prepare-viz, whose own store does not hold it
C27_Witness ==
  /\ fileStorage["ai"]["data.csv"] = "uploads/data.csv"
  /\ fileStorage["smart"]["data.csv"] = NoPath
  /\ req[1].route = PrepareVizRoute("smart")
  /\ child[1].st = "running"
  /\ child[1].args[2] = Arg("uploads/data.csv")

(***************************************************************************)
(* One response per request                                                *)
(***************************************************************************)
\* C28: no handler sends a second response after a first one, and a request whose
\* handler has run to its end has been sent exactly one response.
C28_AnsweredOnce ==
  \A s \in Slots :
    /\ res[s].sends <= 1
    /\ req[s].pc = "done" => res[s].sends = 1

(***************************************************************************)
(* Raw upload of another type                                              *)
(***************************************************************************)
\* C29: a raw upload whose MIME type holds none of the words excel, spreadsheet and
\* csv is not refused and not parsed, whatever the file holds and even if it could
\* not be read as a workbook: the answer is 200 with success true, recordsCount 0
\* and an empty sample, and the temporary file is gone.
C29_OtherTypeAccepted ==
  \A s \in Slots :
    (/\ req[s].route = UploadRoute /\ Answered(s) /\ req[s].file.present
     /\ \A word \in {"excel", "spreadsheet", "csv"} :
          \A i \in DOMAIN req[s].file.mimetype : req[s].file.mimetype[i] # word)
      => /\ res[s].status = 200
         /\ GetProp(res[s].body, "success") = JBool(TRUE)
         /\ GetProp(res[s].body, "recordsCount") = JNum(0)
         /\ GetProp(res[s].body, "sample") = JArr(<<>>)
         /\ req[s].file.path \notin disk

\* a JSON upload that holds a row was answered with no records
C29_Witness ==
  /\ req[1].route = UploadRoute /\ Answered(1)
  /\ req[1].file.mimetype = JsonType /\ req[1].file.sheet = <<ValidRow>>
  /\ res[1].status = 200 /\ GetProp(res[1].body, "recordsCount") = JNum(0)

(***************************************************************************)
(* Smart Data Studio: additions                                            *)
(***************************************************************************)
Ids == {studio.selectedVisualizations[i].id : i \in DOMAIN studio.selectedVisualizations}

\* C30: whatever the order of addVisualization calls and responses, each call
\* answered with success true has added one entry to selectedVisualizations, the
\* entries have pairwise distinct ids, and visualizationData holds under each
\* entry's id the data some such call was given, one call for each entry.
C30_NoAdditionLost ==
  /\ Len(studio.selectedVisualizations) = Cardinality(studio.answered)
  /\ Cardinality(Ids) = Len(studio.selectedVisualizations)
  /\ \E f \in [Ids -> studio.answered] :
       /\ \A a \in studio.answered : \E id \in Ids : f[id] = a
       /\ \A id \in Ids : GetProp(JObj(studio.visualizationData), id) = f[id].data

====
